---- MODULE Spec2Model ----
(***************************************************************************)
(* A model of the encrypted_images crate: the text cipher (encrypts /      *)
(* decrypts) and the image codec (create_img /                             *)
(* decode_image_and_extract_text).                                         *)
(*                                                                         *)
(* Strings are sequences of UTF-8 bytes (0..255).  An Option<T> result is  *)
(* a record [tag, val] with tag "Some" or "None"; a call that panics has   *)
(* tag "Panic".  Every public function is one action: it draws its         *)
(* arguments, runs the whole function and leaves the call's locals and     *)
(* result in a frame variable.                                             *)
(*                                                                         *)
(* Library calls are modelled by what they do: base64 is the real          *)
(* encoding; AES-128-CBC is CBC chaining with PKCS#7 padding over a keyed  *)
(* byte-wise block permutation; HMAC-SHA256 is a 32-byte keyed checksum    *)
(* that is sensitive to every single-bit change of its data and to the     *)
(* key bytes (the key is zero-padded to the hash block, as HMAC does).     *)
(***************************************************************************)
EXTENDS Integers, Sequences, FiniteSets, TLC

VARIABLES enc, dec, cre, dimg, adj, tbl

vars == <<enc, dec, cre, dimg, adj, tbl>>

-----------------------------------------------------------------------------
(* Bounds of the model. *)

\* plaintexts of every length 0..MaxPlainLen are encrypted
MaxPlainLen == 17
\* supplied keys have the lengths in KeyLens, the longest being MaxKeyLen
MaxKeyLen == 17

-----------------------------------------------------------------------------
(* Option / outcome values. *)

Some(v) == [tag |-> "Some", val |-> v]
None == [tag |-> "None", val |-> <<>>]
Panic == [tag |-> "Panic", val |-> <<>>]

IsSome(o) == o.tag = "Some"

-----------------------------------------------------------------------------
(* Byte helpers. *)

Byte == 0..255

RECURSIVE Xor(_, _)
Xor(a, b) ==
  IF a = 0 THEN b
  ELSE IF b = 0 THEN a
  ELSE ((a + b) % 2) + 2 * Xor(a \div 2, b \div 2)

RECURSIVE Pow2(_)
Pow2(n) == IF n = 0 THEN 1 ELSE 2 * Pow2(n - 1)

\* s with bit `bit` (0..7) of its i-th byte (1-based) flipped
FlipBit(s, i, bit) == [s EXCEPT ![i] = Xor(s[i], Pow2(bit))]

\* s[from..to) in Rust's 0-based half-open notation
Slice(s, from, to) == SubSeq(s, from + 1, to)

RECURSIVE SumSeq(_)
SumSeq(s) == IF s = <<>> THEN 0 ELSE Head(s) + SumSeq(Tail(s))

-----------------------------------------------------------------------------
(* base64, STANDARD alphabet with canonical padding (CUSTOM_ENGINE). *)

PadChar == 61

B64Char(v) ==
  IF v < 26 THEN 65 + v
  ELSE IF v < 52 THEN 97 + (v - 26)
  ELSE IF v < 62 THEN 48 + (v - 52)
  ELSE IF v = 62 THEN 43
  ELSE 47

\* the 6-bit value of a character, -1 when it is not in the alphabet
B64Val(c) ==
  IF c >= 65 /\ c <= 90 THEN c - 65
  ELSE IF c >= 97 /\ c <= 122 THEN c - 97 + 26
  ELSE IF c >= 48 /\ c <= 57 THEN c - 48 + 52
  ELSE IF c = 43 THEN 62
  ELSE IF c = 47 THEN 63
  ELSE -1

Base64Encode(bytes) ==
  LET n == Len(bytes)
      groups == (n + 2) \div 3
      At(k) == IF k <= n THEN bytes[k] ELSE 0
      Val(g) == At(3 * g + 1) * 65536 + At(3 * g + 2) * 256 + At(3 * g + 3)
      Ch(j) ==
        LET g == (j - 1) \div 4
            p == (j - 1) % 4
        IN IF p = 0 THEN B64Char(Val(g) \div 262144)
           ELSE IF p = 1 THEN B64Char((Val(g) \div 4096) % 64)
           ELSE IF p = 2 THEN (IF 3 * g + 2 > n THEN PadChar
                               ELSE B64Char((Val(g) \div 64) % 64))
           ELSE (IF 3 * g + 3 > n THEN PadChar ELSE B64Char(Val(g) % 64))
  IN [j \in 1..(4 * groups) |-> Ch(j)]

\* Ok(bytes) or Err: the length is a multiple of 4, padding is canonical and
\* only at the end, every other character is in the alphabet and the unused
\* trailing bits are zero.
Base64Decode(chars) ==
  LET n == Len(chars)
      pads == IF n >= 2 /\ chars[n] = PadChar /\ chars[n - 1] = PadChar THEN 2
              ELSE IF n >= 1 /\ chars[n] = PadChar THEN 1
              ELSE 0
      m == n - pads
      groups == n \div 4
      outLen == 3 * groups - pads
      V(k) == IF k <= m THEN B64Val(chars[k]) ELSE 0
      Val(g) == V(4 * g + 1) * 262144 + V(4 * g + 2) * 4096
                + V(4 * g + 3) * 64 + V(4 * g + 4)
      By(j) ==
        LET g == (j - 1) \div 3
            p == (j - 1) % 3
        IN IF p = 0 THEN Val(g) \div 65536
           ELSE IF p = 1 THEN (Val(g) \div 256) % 256
           ELSE Val(g) % 256
      trailingZero ==
        IF pads = 0 THEN TRUE
        ELSE IF pads = 1 THEN Val(groups - 1) % 256 = 0
        ELSE Val(groups - 1) % 65536 = 0
  IN IF n % 4 # 0 THEN None
     ELSE IF \E k \in 1..m : B64Val(chars[k]) = -1 THEN None
     ELSE IF ~trailingZero THEN None
     ELSE Some([j \in 1..outLen |-> By(j)])

-----------------------------------------------------------------------------
(* UTF-8. *)

IsContinuation(b) == b >= 128 /\ b < 192

\* str::is_char_boundary
IsCharBoundary(s, idx) ==
  \/ idx = 0
  \/ idx = Len(s)
  \/ idx < Len(s) /\ ~IsContinuation(s[idx + 1])

\* U+FFFD as UTF-8
Replacement == <<239, 191, 189>>

\* the number of bytes of the well-formed sequence starting at s[i], 0 when
\* there is none; SecondOk gives the range of the second byte of 3- and
\* 4-byte sequences.
SecondOk(lead, b) ==
  IF lead = 224 THEN b >= 160 /\ b < 192
  ELSE IF lead = 237 THEN b >= 128 /\ b < 160
  ELSE IF lead = 240 THEN b >= 144 /\ b < 192
  ELSE IF lead = 244 THEN b >= 128 /\ b < 144
  ELSE IsContinuation(b)

Utf8Need(lead) ==
  IF lead < 128 THEN 1
  ELSE IF lead >= 194 /\ lead <= 223 THEN 2
  ELSE IF lead >= 224 /\ lead <= 239 THEN 3
  ELSE IF lead >= 240 /\ lead <= 244 THEN 4
  ELSE 0

\* how many bytes from s[i] on form a valid prefix of a sequence (at most
\* Utf8Need of them)
RECURSIVE Utf8Prefix(_, _, _, _)
Utf8Prefix(s, i, k, need) ==
  IF k = need \/ i + k > Len(s) THEN k
  ELSE IF k = 1 /\ ~SecondOk(s[i], s[i + 1]) THEN k
  ELSE IF k > 1 /\ ~IsContinuation(s[i + k]) THEN k
  ELSE Utf8Prefix(s, i, k + 1, need)

\* String::from_utf8_lossy(..).to_string(): well-formed sequences are kept,
\* every maximal ill-formed part becomes U+FFFD.
RECURSIVE Utf8LossyFrom(_, _)
Utf8LossyFrom(s, i) ==
  IF i > Len(s) THEN <<>>
  ELSE LET need == Utf8Need(s[i])
       IN IF need = 0 THEN Replacement \o Utf8LossyFrom(s, i + 1)
          ELSE LET got == Utf8Prefix(s, i, 1, need)
               IN IF got = need
                  THEN SubSeq(s, i, i + need - 1) \o Utf8LossyFrom(s, i + need)
                  ELSE Replacement \o Utf8LossyFrom(s, i + got)

Utf8Lossy(s) == Utf8LossyFrom(s, 1)

-----------------------------------------------------------------------------
(* AES-128-CBC with PKCS#7 padding (openssl::symm::encrypt / decrypt).     *)

\* Cipher::aes_128_cbc(): key, IV and block are 16 bytes
AesKeyLen == 16
AesBlock == 16

\* the keyed block permutation and its inverse
AesEncryptBlock(key, b) ==
  [i \in 1..AesBlock |-> (Xor(b[(i % AesBlock) + 1], key[i]) * 7 + 3 + i) % 256]

AesDecryptBlock(key, c) ==
  [j \in 1..AesBlock |->
     LET i == IF j = 1 THEN AesBlock ELSE j - 1
     IN Xor(((c[i] + 512 - 3 - i) * 183) % 256, key[i])]

XorBlock(a, b) == [i \in 1..AesBlock |-> Xor(a[i], b[i])]

Pkcs7Pad(data) ==
  LET n == AesBlock - (Len(data) % AesBlock)
  IN data \o [i \in 1..n |-> n]

\* Ok(data without its padding) or Err on a bad padding
Pkcs7Unpad(data) ==
  LET len == Len(data)
      n == IF len = 0 THEN 0 ELSE data[len]
  IN IF len = 0 \/ n = 0 \/ n > AesBlock THEN None
     ELSE IF \E i \in (len - n + 1)..len : data[i] # n THEN None
     ELSE Some(SubSeq(data, 1, len - n))

RECURSIVE CbcEncryptBlocks(_, _, _)
CbcEncryptBlocks(key, prev, data) ==
  IF data = <<>> THEN <<>>
  ELSE LET c == AesEncryptBlock(key, XorBlock(SubSeq(data, 1, AesBlock), prev))
       IN c \o CbcEncryptBlocks(key, c, SubSeq(data, AesBlock + 1, Len(data)))

RECURSIVE CbcDecryptBlocks(_, _, _)
CbcDecryptBlocks(key, prev, data) ==
  IF data = <<>> THEN <<>>
  ELSE LET c == SubSeq(data, 1, AesBlock)
       IN XorBlock(AesDecryptBlock(key, c), prev)
          \o CbcDecryptBlocks(key, c, SubSeq(data, AesBlock + 1, Len(data)))

\* openssl::symm::encrypt(cipher, key, Some(iv), data): Err when the key or
\* the IV has the wrong length for the cipher
SymmEncrypt(key, iv, data) ==
  IF Len(key) # AesKeyLen \/ Len(iv) # AesBlock THEN None
  ELSE Some(CbcEncryptBlocks(key, iv, Pkcs7Pad(data)))

\* openssl::symm::decrypt(cipher, key, Some(iv), data): Err on a wrong key or
\* IV length, on data that is not a positive number of whole blocks, and on
\* a bad padding
SymmDecrypt(key, iv, data) ==
  IF Len(key) # AesKeyLen \/ Len(iv) # AesBlock THEN None
  ELSE IF Len(data) = 0 \/ Len(data) % AesBlock # 0 THEN None
  ELSE Pkcs7Unpad(CbcDecryptBlocks(key, iv, data))

-----------------------------------------------------------------------------
(* HMAC-SHA256 (calculate_hmac). *)

\* the tag is 32 bytes; the key is zero-padded to the 64-byte hash block
HmacLen == 32
HmacBlock == 64

Truncate16(v) == IF Len(v) > 16 THEN SubSeq(v, 1, 16) ELSE v

RECURSIVE WeightedSum(_, _)
WeightedSum(s, i) ==
  IF i > Len(s) THEN 0 ELSE s[i] * (2 * i + 1) + WeightedSum(s, i + 1)

HmacKeyBlock(key) == [i \in 1..HmacBlock |-> IF i <= Len(key) THEN key[i] ELSE 0]

HmacTag(d, k, len) ==
  [j \in 1..HmacLen |-> ((d % 256) * (2 * j - 1) + k * (2 * j + 1) + len + j) % 256]

\* a tag that covers only the first cipher block of the data
calculate_hmac_first_block(data, key) ==
  HmacTag(WeightedSum(Truncate16(data), 1), WeightedSum(HmacKeyBlock(key), 1),
          Len(data))

calculate_hmac(data, key) ==
  HmacTag(WeightedSum(data, 1), WeightedSum(HmacKeyBlock(key), 1), Len(data))

\* subtle::ConstantTimeEq on slices: equal lengths and equal bytes
CtEq(a, b) == Len(a) = Len(b) /\ \A i \in 1..Len(a) : a[i] = b[i]

-----------------------------------------------------------------------------
(* encrypts and decrypts. *)

\* "welovenfts"
DefaultKey == <<119, 101, 108, 111, 118, 101, 110, 102, 116, 115>>
\* "default" and "advanced"
DefaultStrength == <<100, 101, 102, 97, 117, 108, 116>>
AdvancedStrength == <<97, 100, 118, 97, 110, 99, 101, 100>>

\* the IV is the base64 of this many bytes
IvSeedLen == 10
\* the payload is IV[0..16) Tag[16..48) CipherText[48..)
IvEnd == 16
TagEnd == 48

UnwrapOr(o, d) == IF IsSome(o) THEN o.val ELSE d

\* while padded_key.len() < 16 { padded_key.push(b'\0') }
PushZeros(key) ==
  IF Len(key) >= AesKeyLen THEN key
  ELSE key \o [i \in 1..(AesKeyLen - Len(key)) |-> 0]

\* Vec::truncate(16)
Truncate(v, n) == IF Len(v) > n THEN SubSeq(v, 1, n) ELSE v

\* padded_key of encrypts: padded, then truncated
EncryptsPaddedKey(key) == Truncate(PushZeros(key), AesKeyLen)

\* padded_key of decrypts: padded only
DecryptsPaddedKey(key) == PushZeros(key)

NoBytes == <<>>

EncFrame(input, key, strength, random_bytes, padded_key, iv, ciphertext, hmac, result) ==
  [called |-> TRUE, input |-> input, key |-> key, strength |-> strength,
   random_bytes |-> random_bytes, padded_key |-> padded_key, iv |-> iv,
   ciphertext |-> ciphertext, hmac |-> hmac, result |-> result]

NoEnc ==
  [called |-> FALSE, input |-> NoBytes, key |-> None, strength |-> None,
   random_bytes |-> NoBytes, padded_key |-> NoBytes, iv |-> NoBytes,
   ciphertext |-> NoBytes, hmac |-> NoBytes, result |-> None]

\* the framing with the tag after the ciphertext
EncryptsResultTagLast(iv, hmac, ciphertext, padded_key) ==
  IF CtEq(hmac, calculate_hmac(ciphertext, padded_key))
  THEN Some(Base64Encode(iv \o ciphertext \o hmac))
  ELSE None

\* the self-check of encrypts and the framing of the result
EncryptsResult(iv, hmac, ciphertext, padded_key) ==
  IF CtEq(hmac, calculate_hmac(ciphertext, padded_key))
  THEN Some(Base64Encode(iv \o hmac \o ciphertext))
  ELSE None

\* whether &input.to_string()[..10] panics
IvSliceOk(input) == Len(input) >= IvSeedLen /\ IsCharBoundary(input, IvSeedLen)

\* the IV drawn from the random source whatever the strength
EncryptsIvAlwaysRandom(strength, iv_bytes, random_bytes) == Base64Encode(random_bytes)

\* the IV string: base64 of the first 10 input bytes under "default", of 10
\* random bytes under any other strength
EncryptsIv(strength, iv_bytes, random_bytes) ==
  IF strength = DefaultStrength THEN Base64Encode(iv_bytes)
  ELSE Base64Encode(random_bytes)

\* encrypts(input, key, strength), with the bytes OsRng would give
encrypts(input, key, strength, random_bytes) ==
  LET k == UnwrapOr(key, DefaultKey)
      st == UnwrapOr(strength, DefaultStrength)
      rnd == IF st = DefaultStrength THEN NoBytes ELSE random_bytes
  IN IF ~IvSliceOk(input)
     THEN EncFrame(input, key, strength, NoBytes, NoBytes, NoBytes, NoBytes, NoBytes, Panic)
     ELSE
       LET iv_bytes == Slice(input, 0, IvSeedLen)
           iv == EncryptsIv(st, iv_bytes, random_bytes)
           padded_key == EncryptsPaddedKey(k)
           ciphertext == SymmEncrypt(padded_key, iv, input)
       IN IF ~IsSome(ciphertext)
          THEN EncFrame(input, key, strength, rnd, padded_key, iv, NoBytes, NoBytes, Panic)
          ELSE
            LET hmac == calculate_hmac(ciphertext.val, padded_key)
            IN EncFrame(input, key, strength, rnd, padded_key, iv, ciphertext.val, hmac,
                        EncryptsResult(iv, hmac, ciphertext.val, padded_key))

\* iv, hmac and ciphertext are the three slices of result_bytes
DecFrame(how, encoded_result, key, padded_key, result_bytes, iv, hmac, ciphertext,
         hmac_ok, cipher_called, result) ==
  [called |-> TRUE, how |-> how, encoded_result |-> encoded_result, key |-> key,
   padded_key |-> padded_key, result_bytes |-> result_bytes, iv |-> iv,
   hmac |-> hmac, ciphertext |-> ciphertext, hmac_ok |-> hmac_ok,
   cipher_called |-> cipher_called, result |-> result]

NoDec ==
  [called |-> FALSE, how |-> "none", encoded_result |-> NoBytes, key |-> None,
   padded_key |-> NoBytes, result_bytes |-> None, iv |-> NoBytes, hmac |-> NoBytes,
   ciphertext |-> NoBytes, hmac_ok |-> FALSE, cipher_called |-> FALSE, result |-> None]

\* decrypts with the block cipher run before the tags are compared
decrypts_cipher_first(how, encoded_result, key) ==
  LET k == UnwrapOr(key, DefaultKey)
      padded_key == DecryptsPaddedKey(k)
      decoded == Base64Decode(encoded_result)
  IN IF ~IsSome(decoded)
     THEN DecFrame(how, encoded_result, key, padded_key, decoded, NoBytes, NoBytes,
                   NoBytes, FALSE, FALSE, None)
     ELSE IF Len(decoded.val) < TagEnd
     THEN DecFrame(how, encoded_result, key, padded_key, decoded, NoBytes, NoBytes,
                   NoBytes, FALSE, FALSE, Panic)
     ELSE
       LET result_bytes == decoded.val
           iv == Slice(result_bytes, 0, IvEnd)
           hmac == Slice(result_bytes, IvEnd, TagEnd)
           ciphertext == Slice(result_bytes, TagEnd, Len(result_bytes))
           decrypted_data == SymmDecrypt(padded_key, iv, ciphertext)
           hmac_ok == CtEq(calculate_hmac(ciphertext, padded_key), hmac)
       IN DecFrame(how, encoded_result, key, padded_key, decoded, iv, hmac, ciphertext,
                   hmac_ok, TRUE,
                   IF hmac_ok /\ IsSome(decrypted_data)
                   THEN Some(Utf8Lossy(decrypted_data.val))
                   ELSE None)

\* decrypts with the tag recomputed over the IV and the ciphertext
decrypts_tag_over_iv(how, encoded_result, key) ==
  LET k == UnwrapOr(key, DefaultKey)
      padded_key == DecryptsPaddedKey(k)
      decoded == Base64Decode(encoded_result)
  IN IF ~IsSome(decoded)
     THEN DecFrame(how, encoded_result, key, padded_key, decoded, NoBytes, NoBytes,
                   NoBytes, FALSE, FALSE, None)
     ELSE IF Len(decoded.val) < TagEnd
     THEN \* &result_bytes[..16] or &result_bytes[16..48] is out of range
          DecFrame(how, encoded_result, key, padded_key, decoded, NoBytes, NoBytes,
                   NoBytes, FALSE, FALSE, Panic)
     ELSE
       LET result_bytes == decoded.val
           iv == Slice(result_bytes, 0, IvEnd)
           hmac == Slice(result_bytes, IvEnd, TagEnd)
           ciphertext == Slice(result_bytes, TagEnd, Len(result_bytes))
           hmac_calculated == calculate_hmac(iv \o ciphertext, padded_key)
       IN IF CtEq(hmac_calculated, hmac)
          THEN LET decrypted_data == SymmDecrypt(padded_key, iv, ciphertext)
               IN DecFrame(how, encoded_result, key, padded_key, decoded, iv, hmac,
                           ciphertext, TRUE, TRUE,
                           IF IsSome(decrypted_data)
                           THEN Some(Utf8Lossy(decrypted_data.val))
                           ELSE None)
          ELSE DecFrame(how, encoded_result, key, padded_key, decoded, iv, hmac,
                        ciphertext, FALSE, FALSE, None)

\* decrypts(encoded_result, key); `how` only labels the call
decrypts(how, encoded_result, key) ==
  LET k == UnwrapOr(key, DefaultKey)
      padded_key == DecryptsPaddedKey(k)
      decoded == Base64Decode(encoded_result)
  IN IF ~IsSome(decoded)
     THEN DecFrame(how, encoded_result, key, padded_key, decoded, NoBytes, NoBytes,
                   NoBytes, FALSE, FALSE, None)
     ELSE IF Len(decoded.val) < TagEnd
     THEN \* &result_bytes[..16] or &result_bytes[16..48] is out of range
          DecFrame(how, encoded_result, key, padded_key, decoded, NoBytes, NoBytes,
                   NoBytes, FALSE, FALSE, Panic)
     ELSE
       LET result_bytes == decoded.val
           iv == Slice(result_bytes, 0, IvEnd)
           hmac == Slice(result_bytes, IvEnd, TagEnd)
           ciphertext == Slice(result_bytes, TagEnd, Len(result_bytes))
           hmac_calculated == calculate_hmac(ciphertext, padded_key)
       IN IF CtEq(hmac_calculated, hmac)
          THEN LET decrypted_data == SymmDecrypt(padded_key, iv, ciphertext)
               IN DecFrame(how, encoded_result, key, padded_key, decoded, iv, hmac,
                           ciphertext, TRUE, TRUE,
                           IF IsSome(decrypted_data)
                           THEN Some(Utf8Lossy(decrypted_data.val))
                           ELSE None)
          ELSE DecFrame(how, encoded_result, key, padded_key, decoded, iv, hmac,
                        ciphertext, FALSE, FALSE, None)

-----------------------------------------------------------------------------
(* The character/colour table (char_mappings::maps::mappings).             *)

\* the index of a character in "a-zA-Z0-9+/=", -1 outside the alphabet
CharIndex(c) ==
  IF c >= 97 /\ c <= 122 THEN c - 97
  ELSE IF c >= 65 /\ c <= 90 THEN c - 65 + 26
  ELSE IF c >= 48 /\ c <= 57 THEN c - 48 + 52
  ELSE IF c = 43 THEN 62
  ELSE IF c = 47 THEN 63
  ELSE IF c = 61 THEN 64
  ELSE -1

\* the character at an index 0..64 of the alphabet
AlphabetChar(i) ==
  IF i < 26 THEN 97 + i
  ELSE IF i < 52 THEN 65 + (i - 26)
  ELSE IF i < 62 THEN 48 + (i - 52)
  ELSE IF i = 62 THEN 43
  ELSE IF i = 63 THEN 47
  ELSE 61

AlphabetSize == 65

\* The colours of the table: character i of the alphabet has the colour
\* (TableBase + i % 5, TableBase + (i / 5) % 5, TableBase + i / 25), so the
\* 65 colours are distinct and every component is within TableBase..TableBase+4.
TableBase == 20
TableRadix == 5

\* get_color(c): Some((r, g, b)) for the 65 characters, None otherwise;
\* the variant gives '=' the colour of 'a'
get_color_shared(c) ==
  LET i == CharIndex(c)
  IN IF i = -1 THEN None
     ELSE IF i = AlphabetSize - 1 THEN Some(<<TableBase, TableBase, TableBase>>)
     ELSE Some(<<TableBase + (i % TableRadix),
                 TableBase + ((i \div TableRadix) % TableRadix),
                 TableBase + (i \div (TableRadix * TableRadix))>>)

get_color(c) ==
  LET i == CharIndex(c)
  IN IF i = -1 THEN None
     ELSE Some(<<TableBase + (i % TableRadix),
                 TableBase + ((i \div TableRadix) % TableRadix),
                 TableBase + (i \div (TableRadix * TableRadix))>>)

\* numbers_to_letter(r, g, b): the character of exactly that colour
numbers_to_letter(r, g, b) ==
  LET InDigit(v) == v >= TableBase /\ v < TableBase + TableRadix
      i == (r - TableBase) + TableRadix * (g - TableBase)
             + TableRadix * TableRadix * (b - TableBase)
  IN IF InDigit(r) /\ InDigit(g) /\ InDigit(b) /\ i < AlphabetSize
     THEN Some(AlphabetChar(i))
     ELSE None

\* get_color(c), then numbers_to_letter on the colour it gave
TblFrame(c, color, back) == [called |-> TRUE, c |-> c, color |-> color, back |-> back]

NoTbl == [called |-> FALSE, c |-> 0, color |-> None, back |-> None]

char_conversion(c) ==
  LET color == get_color(c)
  IN TblFrame(c, color,
              IF IsSome(color)
              THEN numbers_to_letter(color.val[1], color.val[2], color.val[3])
              ELSE None)

-----------------------------------------------------------------------------
(* Rasters: [w, h, px], px[y + 1][x + 1] the RGBA pixel at (x, y).         *)

Raster(w, h, px) == [w |-> w, h |-> h, px |-> px]

NoRaster == Raster(0, 0, <<>>)

GetPixel(image, x, y) == image.px[y + 1][x + 1]

\* ImageBuffer built pixel by pixel from F(x, y)
MakeRaster(w, h, F(_, _)) ==
  Raster(w, h, [y1 \in 1..h |-> [x1 \in 1..w |-> F(x1 - 1, y1 - 1)]])

Abs(n) == IF n < 0 THEN -n ELSE n
Min(a, b) == IF a < b THEN a ELSE b

\* A u32 is kept as two 16-bit limbs, hi * 65536 + lo.
Limb == 65536
U32Of(n) == [hi |-> n \div Limb, lo |-> n % Limb]

\* a - b in u32 without overflow checks (wrapping), for a, b below 2^16
WrappingSub(a, b) ==
  IF a >= b THEN U32Of(a - b) ELSE [hi |-> Limb - 1, lo |-> Limb + (a - b)]

-----------------------------------------------------------------------------
(* create_img, step by step. *)

\* the gradient bias when r, g, b are omitted
DefaultR == 100
DefaultG == 134
DefaultB == 131

\* the ciphertext left as it is
ShiftedCiphertextUnrotated(ciphertext) == ciphertext

\* last.to_string() + &ciphertext[..width - 1]
ShiftedCiphertext(ciphertext) ==
  IF ciphertext = <<>> THEN ciphertext
  ELSE <<ciphertext[Len(ciphertext)]>> \o SubSeq(ciphertext, 1, Len(ciphertext) - 1)

\* one channel of a pixel of the first pass
FillChannel(c, y, bias) == IF y = 0 THEN c ELSE Min(Abs(c - (y + bias)), 255)

\* the first pass: row 0 carries the colours, the rows below the gradient
FillCanvas(ciphertext, r, g, b) ==
  LET width == Len(ciphertext)
      shifted == ShiftedCiphertext(ciphertext)
      Color(x) == UnwrapOr(get_color(shifted[x + 1]), <<0, 0, 0>>)
      Px(x, y) == <<FillChannel(Color(x)[1], y, r), FillChannel(Color(x)[2], y, g),
                    FillChannel(Color(x)[3], y, b), 255>>
  IN MakeRaster(width, width, Px)

IsWhite(p) == p[1] = 255 /\ p[2] = 255 /\ p[3] = 255

\* row_count: the rows y # 0 that contain a white pixel
RowCount(image) ==
  Cardinality({y \in 1..(image.h - 1) :
                 \E x \in 0..(image.w - 1) : IsWhite(GetPixel(image, x, y))})

\* the quotient taken the other way round
OffsetCountOverHeight(image) ==
  LET row_count == RowCount(image)
  IN IF row_count > 10 THEN row_count \div image.h ELSE 1

\* offset: height / row_count when more than 10 rows hold white, else 1
Offset(image) ==
  LET row_count == RowCount(image)
  IN IF row_count > 10 THEN image.h \div row_count ELSE 1

\* row_shift with the increment at row 0 left out
RECURSIVE RowShiftSkipRowZero(_, _)
RowShiftSkipRowZero(y, offset) ==
  IF y = 0 THEN 0
  ELSE RowShiftSkipRowZero(y - 1, offset) + (IF y % offset = 0 THEN 1 ELSE 0)

\* row_shift while row y is copied: it starts at 0 and is incremented at
\* every y with y % offset = 0, row 0 included
RECURSIVE RowShift(_, _)
RowShift(y, offset) ==
  (IF y = 0 THEN 0 ELSE RowShift(y - 1, offset)) + (IF y % offset = 0 THEN 1 ELSE 0)

\* the row of img that row y of new_img is copied from
SourceRow(y, offset) ==
  LET row_shift == RowShift(y, offset)
  IN IF y >= row_shift /\ y # 0 THEN y - row_shift ELSE y

\* the second pass: new_img, whole rows at a time
ShiftRows(image) ==
  LET offset == Offset(image)
  IN Raster(image.w, image.h,
            [y1 \in 1..image.h |-> image.px[SourceRow(y1 - 1, offset) + 1]])

\* a quarter turn the other way
Rotate90Counterclockwise(image) ==
  LET Px(x, y) == GetPixel(image, image.w - 1 - y, x)
  IN MakeRaster(image.h, image.w, Px)

\* imageops::rotate90, rotate270, flip_vertical
Rotate90(image) ==
  LET Px(x, y) == GetPixel(image, y, image.h - 1 - x)
  IN MakeRaster(image.h, image.w, Px)

Rotate270(image) ==
  LET Px(x, y) == GetPixel(image, image.w - 1 - y, x)
  IN MakeRaster(image.h, image.w, Px)

FlipVertical(image) ==
  LET Px(x, y) == GetPixel(image, x, image.h - 1 - y)
  IN MakeRaster(image.w, image.h, Px)

\* match style { "v", "v2", "h", "h2", _ }
StyleTransform(image, style) ==
  IF style = "v" THEN Rotate90(image)
  ELSE IF style = "v2" THEN FlipVertical(Rotate270(image))
  ELSE IF style = "h2" THEN FlipVertical(image)
  ELSE image

-----------------------------------------------------------------------------
(* Watermarks. *)

\* A string argument that may hold an encoded raster: either text (its
\* characters), or the base64 of the PNG encoding of a raster.
Text(chars) == [kind |-> "text", chars |-> chars, raster |-> NoRaster]
RasterString(image) == [kind |-> "raster", chars |-> <<>>, raster |-> image]

\* whether custom_engine.decode(s) is Ok
IsBase64(s) == s.kind = "raster" \/ IsSome(Base64Decode(s.chars))

\* image::load_from_memory on the decoded bytes of s: the raster of an
\* encoded raster, Err for text (whose bytes are no image file)
LoadFromMemory(s) == IF s.kind = "raster" THEN Some(s.raster) ELSE None

\* the watermark names
EmptyName == <<101, 109, 112, 116, 121>>
BitcoinName == <<98, 105, 116, 99, 111, 105, 110>>
EthereumName == <<101, 116, 104, 101, 114, 101, 117, 109>>
CardanoName == <<99, 97, 114, 100, 97, 110, 111>>
\* "Bitcoin", as the test and the doc example write it
CapitalBitcoinName == <<66, 105, 116, 99, 111, 105, 110>>

\* the pixels of the "bitcoin" asset (a 32 x 32 RGBA PNG), row by row
BitcoinAsset ==
  <<
  <<<<0, 0, 0, 0>>, <<0, 0, 0, 0>>, <<0, 0, 0, 0>>, <<0, 0, 0, 0>>, <<0, 0, 0, 0>>, <<0, 0, 0, 0>>, <<0, 0, 0, 0>>, <<0, 0, 0, 0>>, <<0, 0, 0, 0>>, <<0, 0, 0, 0>>, <<0, 0, 0, 0>>, <<0, 0, 0, 0>>, <<0, 0, 0, 0>>, <<0, 0, 0, 0>>, <<0, 0, 0, 0>>, <<0, 0, 0, 0>>, <<0, 0, 0, 0>>, <<0, 0, 0, 0>>, <<0, 0, 0, 0>>, <<0, 0, 0, 0>>, <<0, 0, 0, 0>>, <<0, 0, 0, 0>>, <<0, 0, 0, 0>>, <<0, 0, 0, 0>>, <<0, 0, 0, 0>>, <<0, 0, 0, 0>>, <<0, 0, 0, 0>>, <<0, 0, 0, 0>>, <<0, 0, 0, 0>>, <<0, 0, 0, 0>>, <<0, 0, 0, 0>>, <<0, 0, 0, 0>>>>,
  <<<<0, 0, 0, 0>>, <<0, 0, 0, 0>>, <<0, 0, 0, 0>>, <<0, 0, 0, 0>>, <<0, 0, 0, 0>>, <<0, 0, 0, 0>>, <<0, 0, 0, 0>>, <<0, 0, 0, 0>>, <<0, 0, 0, 0>>, <<0, 0, 0, 0>>, <<0, 0, 0, 0>>, <<0, 0, 0, 0>>, <<0, 0, 0, 0>>, <<0, 0, 0, 0>>, <<0, 0, 0, 0>>, <<0, 0, 0, 0>>, <<0, 0, 0, 0>>, <<0, 0, 0, 0>>, <<0, 0, 0, 0>>, <<0, 0, 0, 0>>, <<0, 0, 0, 0>>, <<0, 0, 0, 0>>, <<0, 0, 0, 0>>, <<0, 0, 0, 0>>, <<0, 0, 0, 0>>, <<0, 0, 0, 0>>, <<0, 0, 0, 0>>, <<0, 0, 0, 0>>, <<0, 0, 0, 0>>, <<0, 0, 0, 0>>, <<0, 0, 0, 0>>, <<0, 0, 0, 0>>>>,
  <<<<0, 0, 0, 0>>, <<0, 0, 0, 0>>, <<0, 0, 0, 0>>, <<0, 0, 0, 0>>, <<0, 0, 0, 0>>, <<0, 0, 0, 0>>, <<0, 0, 0, 0>>, <<0, 0, 0, 0>>, <<0, 0, 0, 0>>, <<0, 0, 0, 0>>, <<0, 0, 0, 0>>, <<0, 0, 0, 0>>, <<0, 0, 0, 0>>, <<242, 142, 19, 143>>, <<242, 142, 19, 209>>, <<242, 142, 19, 167>>, <<0, 0, 0, 0>>, <<0, 0, 0, 0>>, <<242, 142, 19, 48>>, <<0, 0, 0, 0>>, <<0, 0, 0, 0>>, <<0, 0, 0, 0>>, <<0, 0, 0, 0>>, <<0, 0, 0, 0>>, <<0, 0, 0, 0>>, <<0, 0, 0, 0>>, <<0, 0, 0, 0>>, <<0, 0, 0, 0>>, <<0, 0, 0, 0>>, <<0, 0, 0, 0>>, <<0, 0, 0, 0>>, <<0, 0, 0, 0>>>>,
  <<<<0, 0, 0, 0>>, <<0, 0, 0, 0>>, <<0, 0, 0, 0>>, <<0, 0, 0, 0>>, <<0, 0, 0, 0>>, <<0, 0, 0, 0>>, <<0, 0, 0, 0>>, <<0, 0, 0, 0>>, <<0, 0, 0, 0>>, <<0, 0, 0, 0>>, <<0, 0, 0, 0>>, <<0, 0, 0, 0>>, <<0, 0, 0, 0>>, <<242, 142, 19, 183>>, <<242, 142, 19, 255>>, <<242, 142, 19, 205>>, <<0, 0, 0, 0>>, <<242, 142, 19, 46>>, <<242, 142, 19, 255>>, <<242, 142, 19, 255>>, <<242, 142, 19, 85>>, <<0, 0, 0, 0>>, <<0, 0, 0, 0>>, <<0, 0, 0, 0>>, <<0, 0, 0, 0>>, <<0, 0, 0, 0>>, <<0, 0, 0, 0>>, <<0, 0, 0, 0>>, <<0, 0, 0, 0>>, <<0, 0, 0, 0>>, <<0, 0, 0, 0>>, <<0, 0, 0, 0>>>>,
  <<<<0, 0, 0, 0>>, <<0, 0, 0, 0>>, <<0, 0, 0, 0>>, <<0, 0, 0, 0>>, <<0, 0, 0, 0>>, <<0, 0, 0, 0>>, <<0, 0, 0, 0>>, <<0, 0, 0, 0>>, <<0, 0, 0, 0>>, <<0, 0, 0, 0>>, <<0, 0, 0, 0>>, <<0, 0, 0, 0>>, <<0, 0, 0, 0>>, <<242, 142, 19, 223>>, <<242, 142, 19, 255>>, <<242, 142, 19, 164>>, <<0, 0, 0, 0>>, <<242, 142, 19, 86>>, <<242, 142, 19, 255>>, <<242, 142, 19, 255>>, <<242, 142, 19, 51>>, <<0, 0, 0, 0>>, <<0, 0, 0, 0>>, <<0, 0, 0, 0>>, <<0, 0, 0, 0>>, <<0, 0, 0, 0>>, <<0, 0, 0, 0>>, <<0, 0, 0, 0>>, <<0, 0, 0, 0>>, <<0, 0, 0, 0>>, <<0, 0, 0, 0>>, <<0, 0, 0, 0>>>>,
  <<<<0, 0, 0, 0>>, <<0, 0, 0, 0>>, <<0, 0, 0, 0>>, <<0, 0, 0, 0>>, <<0, 0, 0, 0>>, <<0, 0, 0, 0>>, <<0, 0, 0, 0>>, <<242, 142, 19, 38>>, <<242, 142, 19, 235>>, <<242, 142, 19, 195>>, <<242, 142, 19, 152>>, <<242, 142, 19, 105>>, <<242, 142, 19, 64>>, <<242, 142, 19, 255>>, <<242, 142, 19, 255>>, <<242, 142, 19, 124>>, <<0, 0, 0, 0>>, <<242, 142, 19, 126>>, <<242, 142, 19, 255>>, <<242, 142, 19, 255>>, <<242, 142, 19, 6>>, <<0, 0, 0, 0>>, <<0, 0, 0, 0>>, <<0, 0, 0, 0>>, <<0, 0, 0, 0>>, <<0, 0, 0, 0>>, <<0, 0, 0, 0>>, <<0, 0, 0, 0>>, <<0, 0, 0, 0>>, <<0, 0, 0, 0>>, <<0, 0, 0, 0>>, <<0, 0, 0, 0>>>>,
  <<<<0, 0, 0, 0>>, <<0, 0, 0, 0>>, <<0, 0, 0, 0>>, <<0, 0, 0, 0>>, <<0, 0, 0, 0>>, <<0, 0, 0, 0>>, <<0, 0, 0, 0>>, <<242, 142, 19, 78>>, <<242, 142, 19, 255>>, <<242, 142, 19, 255>>, <<242, 142, 19, 255>>, <<242, 142, 19, 255>>, <<242, 142, 19, 255>>, <<242, 142, 19, 255>>, <<242, 142, 19, 255>>, <<242, 142, 19, 224>>, <<242, 142, 19, 183>>, <<242, 142, 19, 214>>, <<242, 142, 19, 255>>, <<242, 142, 19, 221>>, <<0, 0, 0, 0>>, <<0, 0, 0, 0>>, <<0, 0, 0, 0>>, <<0, 0, 0, 0>>, <<0, 0, 0, 0>>, <<0, 0, 0, 0>>, <<0, 0, 0, 0>>, <<0, 0, 0, 0>>, <<0, 0, 0, 0>>, <<0, 0, 0, 0>>, <<0, 0, 0, 0>>, <<0, 0, 0, 0>>>>,
  <<<<0, 0, 0, 0>>, <<0, 0, 0, 0>>, <<0, 0, 0, 0>>, <<0, 0, 0, 0>>, <<0, 0, 0, 0>>, <<0, 0, 0, 0>>, <<0, 0, 0, 0>>, <<242, 142, 19, 62>>, <<242, 142, 19, 201>>, <<242, 142, 19, 243>>, <<242, 142, 19, 255>>, <<242, 142, 19, 255>>, <<242, 142, 19, 255>>, <<242, 142, 19, 255>>, <<242, 142, 19, 255>>, <<242, 142, 19, 255>>, <<242, 142, 19, 255>>, <<242, 142, 19, 255>>, <<242, 142, 19, 255>>, <<242, 142, 19, 255>>, <<242, 142, 19, 225>>, <<242, 142, 19, 134>>, <<242, 142, 19, 26>>, <<0, 0, 0, 0>>, <<0, 0, 0, 0>>, <<0, 0, 0, 0>>, <<0, 0, 0, 0>>, <<0, 0, 0, 0>>, <<0, 0, 0, 0>>, <<0, 0, 0, 0>>, <<0, 0, 0, 0>>, <<0, 0, 0, 0>>>>,
  <<<<0, 0, 0, 0>>, <<0, 0, 0, 0>>, <<0, 0, 0, 0>>, <<0, 0, 0, 0>>, <<0, 0, 0, 0>>, <<0, 0, 0, 0>>, <<0, 0, 0, 0>>, <<0, 0, 0, 0>>, <<0, 0, 0, 0>>, <<242, 142, 18, 8>>, <<242, 142, 19, 180>>, <<242, 142, 19, 255>>, <<242, 142, 19, 255>>, <<242, 142, 19, 255>>, <<242, 142, 19, 255>>, <<242, 142, 19, 255>>, <<242, 142, 19, 255>>, <<242, 142, 19, 255>>, <<242, 142, 19, 255>>, <<242, 142, 19, 255>>, <<242, 142, 19, 255>>, <<242, 142, 19, 255>>, <<242, 142, 19, 245>>, <<242, 142, 19, 115>>, <<0, 0, 0, 0>>, <<0, 0, 0, 0>>, <<0, 0, 0, 0>>, <<0, 0, 0, 0>>, <<0, 0, 0, 0>>, <<0, 0, 0, 0>>, <<0, 0, 0, 0>>, <<0, 0, 0, 0>>>>,
  <<<<0, 0, 0, 0>>, <<0, 0, 0, 0>>, <<0, 0, 0, 0>>, <<0, 0, 0, 0>>, <<0, 0, 0, 0>>, <<0, 0, 0, 0>>, <<0, 0, 0, 0>>, <<0, 0, 0, 0>>, <<0, 0, 0, 0>>, <<0, 0, 0, 0>>, <<242, 142, 19, 130>>, <<242, 142, 19, 255>>, <<242, 142, 19, 255>>, <<242, 142, 19, 255>>, <<242, 142, 19, 227>>, <<242, 142, 19, 29>>, <<242, 142, 19, 65>>, <<242, 142, 19, 122>>, <<242, 142, 19, 203>>, <<242, 142, 19, 255>>, <<242, 142, 19, 255>>, <<242, 142, 19, 255>>, <<242, 142, 19, 255>>, <<242, 142, 19, 255>>, <<242, 142, 19, 101>>, <<0, 0, 0, 0>>, <<0, 0, 0, 0>>, <<0, 0, 0, 0>>, <<0, 0, 0, 0>>, <<0, 0, 0, 0>>, <<0, 0, 0, 0>>, <<0, 0, 0, 0>>>>,
  <<<<0, 0, 0, 0>>, <<0, 0, 0, 0>>, <<0, 0, 0, 0>>, <<0, 0, 0, 0>>, <<0, 0, 0, 0>>, <<0, 0, 0, 0>>, <<0, 0, 0, 0>>, <<0, 0, 0, 0>>, <<0, 0, 0, 0>>, <<0, 0, 0, 0>>, <<242, 142, 19, 170>>, <<242, 142, 19, 255>>, <<242, 142, 19, 255>>, <<242, 142, 19, 255>>, <<242, 142, 19, 187>>, <<0, 0, 0, 0>>, <<0, 0, 0, 0>>, <<0, 0, 0, 0>>, <<0, 0, 0, 0>>, <<242, 142, 19, 103>>, <<242, 142, 19, 255>>, <<242, 142, 19, 255>>, <<242, 142, 19, 255>>, <<242, 142, 19, 255>>, <<242, 142, 19, 234>>, <<0, 0, 0, 0>>, <<0, 0, 0, 0>>, <<0, 0, 0, 0>>, <<0, 0, 0, 0>>, <<0, 0, 0, 0>>, <<0, 0, 0, 0>>, <<0, 0, 0, 0>>>>,
  <<<<0, 0, 0, 0>>, <<0, 0, 0, 0>>, <<0, 0, 0, 0>>, <<0, 0, 0, 0>>, <<0, 0, 0, 0>>, <<0, 0, 0, 0>>, <<0, 0, 0, 0>>, <<0, 0, 0, 0>>, <<0, 0, 0, 0>>, <<0, 0, 0, 0>>, <<242, 142, 19, 210>>, <<242, 142, 19, 255>>, <<242, 142, 19, 255>>, <<242, 142, 19, 255>>, <<242, 142, 19, 147>>, <<0, 0, 0, 0>>, <<0, 0, 0, 0>>, <<0, 0, 0, 0>>, <<0, 0, 0, 0>>, <<0, 0, 0, 0>>, <<242, 142, 19, 181>>, <<242, 142, 19, 255>>, <<242, 142, 19, 255>>, <<242, 142, 19, 255>>, <<242, 142, 19, 255>>, <<242, 142, 19, 17>>, <<0, 0, 0, 0>>, <<0, 0, 0, 0>>, <<0, 0, 0, 0>>, <<0, 0, 0, 0>>, <<0, 0, 0, 0>>, <<0, 0, 0, 0>>>>,
  <<<<0, 0, 0, 0>>, <<0, 0, 0, 0>>, <<0, 0, 0, 0>>, <<0, 0, 0, 0>>, <<0, 0, 0, 0>>, <<0, 0, 0, 0>>, <<0, 0, 0, 0>>, <<0, 0, 0, 0>>, <<0, 0, 0, 0>>, <<0, 0, 0, 0>>, <<242, 142, 19, 255>>, <<242, 142, 19, 255>>, <<242, 142, 19, 255>>, <<242, 142, 19, 255>>, <<242, 142, 19, 102>>, <<0, 0, 0, 0>>, <<0, 0, 0, 0>>, <<0, 0, 0, 0>>, <<0, 0, 0, 0>>, <<0, 0, 0, 0>>, <<242, 142, 19, 178>>, <<242, 142, 19, 255>>, <<242, 142, 19, 255>>, <<242, 142, 19, 255>>, <<242, 142, 19, 255>>, <<243, 144, 18, 3>>, <<0, 0, 0, 0>>, <<0, 0, 0, 0>>, <<0, 0, 0, 0>>, <<0, 0, 0, 0>>, <<0, 0, 0, 0>>, <<0, 0, 0, 0>>>>,
  <<<<0, 0, 0, 0>>, <<0, 0, 0, 0>>, <<0, 0, 0, 0>>, <<0, 0, 0, 0>>, <<0, 0, 0, 0>>, <<0, 0, 0, 0>>, <<0, 0, 0, 0>>, <<0, 0, 0, 0>>, <<0, 0, 0, 0>>, <<242, 142, 19, 45>>, <<242, 142, 19, 255>>, <<242, 142, 19, 255>>, <<242, 142, 19, 255>>, <<242, 142, 19, 255>>, <<242, 142, 19, 56>>, <<0, 0, 0, 0>>, <<0, 0, 0, 0>>, <<0, 0, 0, 0>>, <<0, 0, 0, 0>>, <<242, 142, 19, 65>>, <<242, 142, 19, 250>>, <<242, 142, 19, 255>>, <<242, 142, 19, 255>>, <<242, 142, 19, 255>>, <<242, 142, 19, 206>>, <<0, 0, 0, 0>>, <<0, 0, 0, 0>>, <<0, 0, 0, 0>>, <<0, 0, 0, 0>>, <<0, 0, 0, 0>>, <<0, 0, 0, 0>>, <<0, 0, 0, 0>>>>,
  <<<<0, 0, 0, 0>>, <<0, 0, 0, 0>>, <<0, 0, 0, 0>>, <<0, 0, 0, 0>>, <<0, 0, 0, 0>>, <<0, 0, 0, 0>>, <<0, 0, 0, 0>>, <<0, 0, 0, 0>>, <<0, 0, 0, 0>>, <<242, 142, 19, 85>>, <<242, 142, 19, 255>>, <<242, 142, 19, 255>>, <<242, 142, 19, 255>>, <<242, 142, 19, 255>>, <<242, 142, 19, 255>>, <<242, 142, 19, 206>>, <<242, 142, 19, 185>>, <<242, 142, 19, 163>>, <<242, 142, 19, 212>>, <<242, 142, 19, 255>>, <<242, 142, 19, 255>>, <<242, 142, 19, 255>>, <<242, 142, 19, 255>>, <<242, 142, 19, 255>>, <<242, 142, 19, 79>>, <<0, 0, 0, 0>>, <<0, 0, 0, 0>>, <<0, 0, 0, 0>>, <<0, 0, 0, 0>>, <<0, 0, 0, 0>>, <<0, 0, 0, 0>>, <<0, 0, 0, 0>>>>,
  <<<<0, 0, 0, 0>>, <<0, 0, 0, 0>>, <<0, 0, 0, 0>>, <<0, 0, 0, 0>>, <<0, 0, 0, 0>>, <<0, 0, 0, 0>>, <<0, 0, 0, 0>>, <<0, 0, 0, 0>>, <<0, 0, 0, 0>>, <<242, 142, 19, 126>>, <<242, 142, 19, 255>>, <<242, 142, 19, 255>>, <<242, 142, 19, 255>>, <<242, 142, 19, 255>>, <<242, 142, 19, 255>>, <<242, 142, 19, 255>>, <<242, 142, 19, 255>>, <<242, 142, 19, 255>>, <<242, 142, 19, 255>>, <<242, 142, 19, 255>>, <<242, 142, 19, 255>>, <<242, 142, 19, 255>>, <<242, 142, 19, 214>>, <<242, 142, 19, 77>>, <<0, 0, 0, 0>>, <<0, 0, 0, 0>>, <<0, 0, 0, 0>>, <<0, 0, 0, 0>>, <<0, 0, 0, 0>>, <<0, 0, 0, 0>>, <<0, 0, 0, 0>>, <<0, 0, 0, 0>>>>,
  <<<<0, 0, 0, 0>>, <<0, 0, 0, 0>>, <<0, 0, 0, 0>>, <<0, 0, 0, 0>>, <<0, 0, 0, 0>>, <<0, 0, 0, 0>>, <<0, 0, 0, 0>>, <<0, 0, 0, 0>>, <<0, 0, 0, 0>>, <<242, 142, 19, 166>>, <<242, 142, 19, 255>>, <<242, 142, 19, 255>>, <<242, 142, 19, 255>>, <<242, 142, 19, 211>>, <<242, 142, 19, 141>>, <<242, 142, 19, 176>>, <<242, 142, 19, 227>>, <<242, 142, 19, 255>>, <<242, 142, 19, 255>>, <<242, 142, 19, 255>>, <<242, 142, 19, 255>>, <<242, 142, 19, 255>>, <<242, 142, 19, 245>>, <<242, 142, 19, 122>>, <<0, 0, 0, 0>>, <<0, 0, 0, 0>>, <<0, 0, 0, 0>>, <<0, 0, 0, 0>>, <<0, 0, 0, 0>>, <<0, 0, 0, 0>>, <<0, 0, 0, 0>>, <<0, 0, 0, 0>>>>,
  <<<<0, 0, 0, 0>>, <<0, 0, 0, 0>>, <<0, 0, 0, 0>>, <<0, 0, 0, 0>>, <<0, 0, 0, 0>>, <<0, 0, 0, 0>>, <<0, 0, 0, 0>>, <<0, 0, 0, 0>>, <<0, 0, 0, 0>>, <<242, 142, 19, 206>>, <<242, 142, 19, 255>>, <<242, 142, 19, 255>>, <<242, 142, 19, 255>>, <<242, 142, 19, 150>>, <<0, 0, 0, 0>>, <<0, 0, 0, 0>>, <<0, 0, 0, 0>>, <<242, 142, 19, 39>>, <<242, 142, 19, 143>>, <<242, 142, 19, 249>>, <<242, 142, 19, 255>>, <<242, 142, 19, 255>>, <<242, 142, 19, 255>>, <<242, 142, 19, 255>>, <<242, 142, 19, 132>>, <<0, 0, 0, 0>>, <<0, 0, 0, 0>>, <<0, 0, 0, 0>>, <<0, 0, 0, 0>>, <<0, 0, 0, 0>>, <<0, 0, 0, 0>>, <<0, 0, 0, 0>>>>,
  <<<<0, 0, 0, 0>>, <<0, 0, 0, 0>>, <<0, 0, 0, 0>>, <<0, 0, 0, 0>>, <<0, 0, 0, 0>>, <<0, 0, 0, 0>>, <<0, 0, 0, 0>>, <<0, 0, 0, 0>>, <<0, 0, 0, 0>>, <<242, 142, 19, 254>>, <<242, 142, 19, 255>>, <<242, 142, 19, 255>>, <<242, 142, 19, 255>>, <<242, 142, 19, 103>>, <<0, 0, 0, 0>>, <<0, 0, 0, 0>>, <<0, 0, 0, 0>>, <<0, 0, 0, 0>>, <<0, 0, 0, 0>>, <<242, 142, 19, 64>>, <<242, 142, 19, 255>>, <<242, 142, 19, 255>>, <<242, 142, 19, 255>>, <<242, 142, 19, 255>>, <<242, 142, 19, 247>>, <<242, 142, 19, 16>>, <<0, 0, 0, 0>>, <<0, 0, 0, 0>>, <<0, 0, 0, 0>>, <<0, 0, 0, 0>>, <<0, 0, 0, 0>>, <<0, 0, 0, 0>>>>,
  <<<<0, 0, 0, 0>>, <<0, 0, 0, 0>>, <<0, 0, 0, 0>>, <<0, 0, 0, 0>>, <<0, 0, 0, 0>>, <<0, 0, 0, 0>>, <<0, 0, 0, 0>>, <<0, 0, 0, 0>>, <<242, 142, 19, 41>>, <<242, 142, 19, 255>>, <<242, 142, 19, 255>>, <<242, 142, 19, 255>>, <<242, 142, 19, 255>>, <<242, 142, 19, 60>>, <<0, 0, 0, 0>>, <<0, 0, 0, 0>>, <<0, 0, 0, 0>>, <<0, 0, 0, 0>>, <<0, 0, 0, 0>>, <<0, 0, 0, 0>>, <<242, 142, 19, 207>>, <<242, 142, 19, 255>>, <<242, 142, 19, 255>>, <<242, 142, 19, 255>>, <<242, 142, 19, 255>>, <<242, 142, 19, 51>>, <<0, 0, 0, 0>>, <<0, 0, 0, 0>>, <<0, 0, 0, 0>>, <<0, 0, 0, 0>>, <<0, 0, 0, 0>>, <<0, 0, 0, 0>>>>,
  <<<<0, 0, 0, 0>>, <<0, 0, 0, 0>>, <<0, 0, 0, 0>>, <<0, 0, 0, 0>>, <<0, 0, 0, 0>>, <<242, 142, 19, 19>>, <<242, 142, 19, 53>>, <<242, 142, 19, 8>>, <<242, 142, 19, 106>>, <<242, 142, 19, 255>>, <<242, 142, 19, 255>>, <<242, 142, 19, 255>>, <<242, 142, 19, 255>>, <<242, 142, 19, 20>>, <<0, 0, 0, 0>>, <<0, 0, 0, 0>>, <<0, 0, 0, 0>>, <<0, 0, 0, 0>>, <<0, 0, 0, 0>>, <<0, 0, 0, 0>>, <<242, 142, 19, 221>>, <<242, 142, 19, 255>>, <<242, 142, 19, 255>>, <<242, 142, 19, 255>>, <<242, 142, 19, 255>>, <<242, 142, 19, 51>>, <<0, 0, 0, 0>>, <<0, 0, 0, 0>>, <<0, 0, 0, 0>>, <<0, 0, 0, 0>>, <<0, 0, 0, 0>>, <<0, 0, 0, 0>>>>,
  <<<<0, 0, 0, 0>>, <<0, 0, 0, 0>>, <<0, 0, 0, 0>>, <<0, 0, 0, 0>>, <<0, 0, 0, 0>>, <<242, 142, 19, 84>>, <<242, 142, 19, 255>>, <<242, 142, 19, 255>>, <<242, 142, 19, 255>>, <<242, 142, 19, 255>>, <<242, 142, 19, 255>>, <<242, 142, 19, 255>>, <<242, 142, 19, 245>>, <<242, 142, 19, 9>>, <<0, 0, 0, 0>>, <<0, 0, 0, 0>>, <<0, 0, 0, 0>>, <<0, 0, 0, 0>>, <<0, 0, 0, 0>>, <<242, 142, 19, 121>>, <<242, 142, 19, 255>>, <<242, 142, 19, 255>>, <<242, 142, 19, 255>>, <<242, 142, 19, 255>>, <<242, 142, 19, 250>>, <<242, 142, 19, 6>>, <<0, 0, 0, 0>>, <<0, 0, 0, 0>>, <<0, 0, 0, 0>>, <<0, 0, 0, 0>>, <<0, 0, 0, 0>>, <<0, 0, 0, 0>>>>,
  <<<<0, 0, 0, 0>>, <<0, 0, 0, 0>>, <<0, 0, 0, 0>>, <<0, 0, 0, 0>>, <<0, 0, 0, 0>>, <<242, 142, 19, 143>>, <<242, 142, 19, 255>>, <<242, 142, 19, 255>>, <<242, 142, 19, 255>>, <<242, 142, 19, 255>>, <<242, 142, 19, 255>>, <<242, 142, 19, 255>>, <<242, 142, 19, 255>>, <<242, 142, 19, 255>>, <<242, 142, 19, 222>>, <<242, 142, 19, 203>>, <<242, 142, 19, 175>>, <<242, 142, 19, 196>>, <<242, 142, 19, 233>>, <<242, 142, 19, 255>>, <<242, 142, 19, 255>>, <<242, 142, 19, 255>>, <<242, 142, 19, 255>>, <<242, 142, 19, 255>>, <<242, 142, 19, 169>>, <<0, 0, 0, 0>>, <<0, 0, 0, 0>>, <<0, 0, 0, 0>>, <<0, 0, 0, 0>>, <<0, 0, 0, 0>>, <<0, 0, 0, 0>>, <<0, 0, 0, 0>>>>,
  <<<<0, 0, 0, 0>>, <<0, 0, 0, 0>>, <<0, 0, 0, 0>>, <<0, 0, 0, 0>>, <<0, 0, 0, 0>>, <<242, 142, 19, 129>>, <<242, 142, 19, 204>>, <<242, 142, 19, 251>>, <<242, 142, 19, 255>>, <<242, 142, 19, 255>>, <<242, 142, 19, 255>>, <<242, 142, 19, 255>>, <<242, 142, 19, 255>>, <<242, 142, 19, 255>>, <<242, 142, 19, 255>>, <<242, 142, 19, 255>>, <<242, 142, 19, 255>>, <<242, 142, 19, 255>>, <<242, 142, 19, 255>>, <<242, 142, 19, 255>>, <<242, 142, 19, 255>>, <<242, 142, 19, 255>>, <<242, 142, 19, 255>>, <<242, 142, 19, 245>>, <<242, 142, 19, 41>>, <<0, 0, 0, 0>>, <<0, 0, 0, 0>>, <<0, 0, 0, 0>>, <<0, 0, 0, 0>>, <<0, 0, 0, 0>>, <<0, 0, 0, 0>>, <<0, 0, 0, 0>>>>,
  <<<<0, 0, 0, 0>>, <<0, 0, 0, 0>>, <<0, 0, 0, 0>>, <<0, 0, 0, 0>>, <<0, 0, 0, 0>>, <<0, 0, 0, 0>>, <<0, 0, 0, 0>>, <<0, 0, 0, 0>>, <<242, 142, 19, 36>>, <<242, 142, 19, 109>>, <<242, 142, 19, 255>>, <<242, 142, 19, 255>>, <<242, 142, 19, 231>>, <<242, 142, 19, 255>>, <<242, 142, 19, 255>>, <<242, 142, 19, 255>>, <<242, 142, 19, 255>>, <<242, 142, 19, 255>>, <<242, 142, 19, 255>>, <<242, 142, 19, 255>>, <<242, 142, 19, 255>>, <<242, 142, 19, 255>>, <<242, 142, 19, 231>>, <<242, 142, 19, 61>>, <<0, 0, 0, 0>>, <<0, 0, 0, 0>>, <<0, 0, 0, 0>>, <<0, 0, 0, 0>>, <<0, 0, 0, 0>>, <<0, 0, 0, 0>>, <<0, 0, 0, 0>>, <<0, 0, 0, 0>>>>,
  <<<<0, 0, 0, 0>>, <<0, 0, 0, 0>>, <<0, 0, 0, 0>>, <<0, 0, 0, 0>>, <<0, 0, 0, 0>>, <<0, 0, 0, 0>>, <<0, 0, 0, 0>>, <<0, 0, 0, 0>>, <<0, 0, 0, 0>>, <<242, 142, 19, 86>>, <<242, 142, 19, 255>>, <<242, 142, 19, 255>>, <<242, 142, 19, 51>>, <<243, 142, 19, 5>>, <<242, 142, 19, 214>>, <<242, 142, 19, 255>>, <<242, 142, 19, 224>>, <<242, 142, 19, 153>>, <<242, 142, 19, 153>>, <<242, 142, 19, 153>>, <<242, 142, 19, 139>>, <<242, 142, 19, 81>>, <<242, 142, 19, 9>>, <<0, 0, 0, 0>>, <<0, 0, 0, 0>>, <<0, 0, 0, 0>>, <<0, 0, 0, 0>>, <<0, 0, 0, 0>>, <<0, 0, 0, 0>>, <<0, 0, 0, 0>>, <<0, 0, 0, 0>>, <<0, 0, 0, 0>>>>,
  <<<<0, 0, 0, 0>>, <<0, 0, 0, 0>>, <<0, 0, 0, 0>>, <<0, 0, 0, 0>>, <<0, 0, 0, 0>>, <<0, 0, 0, 0>>, <<0, 0, 0, 0>>, <<0, 0, 0, 0>>, <<0, 0, 0, 0>>, <<242, 142, 19, 126>>, <<242, 142, 19, 255>>, <<242, 142, 19, 255>>, <<243, 142, 19, 6>>, <<0, 0, 0, 0>>, <<242, 142, 19, 244>>, <<242, 142, 19, 255>>, <<242, 142, 19, 152>>, <<0, 0, 0, 0>>, <<0, 0, 0, 0>>, <<0, 0, 0, 0>>, <<0, 0, 0, 0>>, <<0, 0, 0, 0>>, <<0, 0, 0, 0>>, <<0, 0, 0, 0>>, <<0, 0, 0, 0>>, <<0, 0, 0, 0>>, <<0, 0, 0, 0>>, <<0, 0, 0, 0>>, <<0, 0, 0, 0>>, <<0, 0, 0, 0>>, <<0, 0, 0, 0>>, <<0, 0, 0, 0>>>>,
  <<<<0, 0, 0, 0>>, <<0, 0, 0, 0>>, <<0, 0, 0, 0>>, <<0, 0, 0, 0>>, <<0, 0, 0, 0>>, <<0, 0, 0, 0>>, <<0, 0, 0, 0>>, <<0, 0, 0, 0>>, <<0, 0, 0, 0>>, <<242, 142, 19, 166>>, <<242, 142, 19, 255>>, <<242, 142, 19, 221>>, <<0, 0, 0, 0>>, <<242, 142, 19, 30>>, <<242, 142, 19, 255>>, <<242, 142, 19, 255>>, <<242, 142, 19, 104>>, <<0, 0, 0, 0>>, <<0, 0, 0, 0>>, <<0, 0, 0, 0>>, <<0, 0, 0, 0>>, <<0, 0, 0, 0>>, <<0, 0, 0, 0>>, <<0, 0, 0, 0>>, <<0, 0, 0, 0>>, <<0, 0, 0, 0>>, <<0, 0, 0, 0>>, <<0, 0, 0, 0>>, <<0, 0, 0, 0>>, <<0, 0, 0, 0>>, <<0, 0, 0, 0>>, <<0, 0, 0, 0>>>>,
  <<<<0, 0, 0, 0>>, <<0, 0, 0, 0>>, <<0, 0, 0, 0>>, <<0, 0, 0, 0>>, <<0, 0, 0, 0>>, <<0, 0, 0, 0>>, <<0, 0, 0, 0>>, <<0, 0, 0, 0>>, <<0, 0, 0, 0>>, <<242, 142, 19, 82>>, <<242, 142, 19, 140>>, <<242, 142, 19, 126>>, <<0, 0, 0, 0>>, <<242, 142, 19, 70>>, <<242, 142, 19, 255>>, <<242, 142, 19, 255>>, <<242, 142, 19, 63>>, <<0, 0, 0, 0>>, <<0, 0, 0, 0>>, <<0, 0, 0, 0>>, <<0, 0, 0, 0>>, <<0, 0, 0, 0>>, <<0, 0, 0, 0>>, <<0, 0, 0, 0>>, <<0, 0, 0, 0>>, <<0, 0, 0, 0>>, <<0, 0, 0, 0>>, <<0, 0, 0, 0>>, <<0, 0, 0, 0>>, <<0, 0, 0, 0>>, <<0, 0, 0, 0>>, <<0, 0, 0, 0>>>>,
  <<<<0, 0, 0, 0>>, <<0, 0, 0, 0>>, <<0, 0, 0, 0>>, <<0, 0, 0, 0>>, <<0, 0, 0, 0>>, <<0, 0, 0, 0>>, <<0, 0, 0, 0>>, <<0, 0, 0, 0>>, <<0, 0, 0, 0>>, <<0, 0, 0, 0>>, <<0, 0, 0, 0>>, <<0, 0, 0, 0>>, <<0, 0, 0, 0>>, <<243, 143, 18, 5>>, <<242, 142, 19, 51>>, <<242, 142, 19, 95>>, <<242, 142, 19, 20>>, <<0, 0, 0, 0>>, <<0, 0, 0, 0>>, <<0, 0, 0, 0>>, <<0, 0, 0, 0>>, <<0, 0, 0, 0>>, <<0, 0, 0, 0>>, <<0, 0, 0, 0>>, <<0, 0, 0, 0>>, <<0, 0, 0, 0>>, <<0, 0, 0, 0>>, <<0, 0, 0, 0>>, <<0, 0, 0, 0>>, <<0, 0, 0, 0>>, <<0, 0, 0, 0>>, <<0, 0, 0, 0>>>>,
  <<<<0, 0, 0, 0>>, <<0, 0, 0, 0>>, <<0, 0, 0, 0>>, <<0, 0, 0, 0>>, <<0, 0, 0, 0>>, <<0, 0, 0, 0>>, <<0, 0, 0, 0>>, <<0, 0, 0, 0>>, <<0, 0, 0, 0>>, <<0, 0, 0, 0>>, <<0, 0, 0, 0>>, <<0, 0, 0, 0>>, <<0, 0, 0, 0>>, <<0, 0, 0, 0>>, <<0, 0, 0, 0>>, <<0, 0, 0, 0>>, <<0, 0, 0, 0>>, <<0, 0, 0, 0>>, <<0, 0, 0, 0>>, <<0, 0, 0, 0>>, <<0, 0, 0, 0>>, <<0, 0, 0, 0>>, <<0, 0, 0, 0>>, <<0, 0, 0, 0>>, <<0, 0, 0, 0>>, <<0, 0, 0, 0>>, <<0, 0, 0, 0>>, <<0, 0, 0, 0>>, <<0, 0, 0, 0>>, <<0, 0, 0, 0>>, <<0, 0, 0, 0>>, <<0, 0, 0, 0>>>>,
  <<<<0, 0, 0, 0>>, <<0, 0, 0, 0>>, <<0, 0, 0, 0>>, <<0, 0, 0, 0>>, <<0, 0, 0, 0>>, <<0, 0, 0, 0>>, <<0, 0, 0, 0>>, <<0, 0, 0, 0>>, <<0, 0, 0, 0>>, <<0, 0, 0, 0>>, <<0, 0, 0, 0>>, <<0, 0, 0, 0>>, <<0, 0, 0, 0>>, <<0, 0, 0, 0>>, <<0, 0, 0, 0>>, <<0, 0, 0, 0>>, <<0, 0, 0, 0>>, <<0, 0, 0, 0>>, <<0, 0, 0, 0>>, <<0, 0, 0, 0>>, <<0, 0, 0, 0>>, <<0, 0, 0, 0>>, <<0, 0, 0, 0>>, <<0, 0, 0, 0>>, <<0, 0, 0, 0>>, <<0, 0, 0, 0>>, <<0, 0, 0, 0>>, <<0, 0, 0, 0>>, <<0, 0, 0, 0>>, <<0, 0, 0, 0>>, <<0, 0, 0, 0>>, <<0, 0, 0, 0>>>>
  >>

\* the pixels of the "ethereum" asset (a 32 x 32 RGBA PNG), row by row
EthereumAsset ==
  <<
  <<<<0, 0, 0, 0>>, <<0, 0, 0, 0>>, <<0, 0, 0, 0>>, <<0, 0, 0, 0>>, <<0, 0, 0, 0>>, <<0, 0, 0, 0>>, <<0, 0, 0, 0>>, <<0, 0, 0, 0>>, <<0, 0, 0, 0>>, <<0, 0, 0, 0>>, <<0, 0, 0, 0>>, <<0, 0, 0, 0>>, <<0, 0, 0, 0>>, <<0, 0, 0, 0>>, <<0, 0, 0, 0>>, <<140, 140, 197, 41>>, <<51, 51, 197, 41>>, <<0, 0, 0, 0>>, <<0, 0, 0, 0>>, <<0, 0, 0, 0>>, <<0, 0, 0, 0>>, <<0, 0, 0, 0>>, <<0, 0, 0, 0>>, <<0, 0, 0, 0>>, <<0, 0, 0, 0>>, <<0, 0, 0, 0>>, <<0, 0, 0, 0>>, <<0, 0, 0, 0>>, <<0, 0, 0, 0>>, <<0, 0, 0, 0>>, <<0, 0, 0, 0>>, <<0, 0, 0, 0>>>>,
  <<<<0, 0, 0, 0>>, <<0, 0, 0, 0>>, <<0, 0, 0, 0>>, <<0, 0, 0, 0>>, <<0, 0, 0, 0>>, <<0, 0, 0, 0>>, <<0, 0, 0, 0>>, <<0, 0, 0, 0>>, <<0, 0, 0, 0>>, <<0, 0, 0, 0>>, <<0, 0, 0, 0>>, <<0, 0, 0, 0>>, <<0, 0, 0, 0>>, <<0, 0, 0, 0>>, <<0, 0, 0, 0>>, <<141, 141, 197, 189>>, <<55, 55, 197, 190>>, <<0, 0, 0, 0>>, <<0, 0, 0, 0>>, <<0, 0, 0, 0>>, <<0, 0, 0, 0>>, <<0, 0, 0, 0>>, <<0, 0, 0, 0>>, <<0, 0, 0, 0>>, <<0, 0, 0, 0>>, <<0, 0, 0, 0>>, <<0, 0, 0, 0>>, <<0, 0, 0, 0>>, <<0, 0, 0, 0>>, <<0, 0, 0, 0>>, <<0, 0, 0, 0>>, <<0, 0, 0, 0>>>>,
  <<<<0, 0, 0, 0>>, <<0, 0, 0, 0>>, <<0, 0, 0, 0>>, <<0, 0, 0, 0>>, <<0, 0, 0, 0>>, <<0, 0, 0, 0>>, <<0, 0, 0, 0>>, <<0, 0, 0, 0>>, <<0, 0, 0, 0>>, <<0, 0, 0, 0>>, <<0, 0, 0, 0>>, <<0, 0, 0, 0>>, <<0, 0, 0, 0>>, <<0, 0, 0, 0>>, <<141, 141, 197, 88>>, <<140, 140, 197, 255>>, <<51, 51, 197, 255>>, <<56, 56, 197, 90>>, <<0, 0, 0, 0>>, <<0, 0, 0, 0>>, <<0, 0, 0, 0>>, <<0, 0, 0, 0>>, <<0, 0, 0, 0>>, <<0, 0, 0, 0>>, <<0, 0, 0, 0>>, <<0, 0, 0, 0>>, <<0, 0, 0, 0>>, <<0, 0, 0, 0>>, <<0, 0, 0, 0>>, <<0, 0, 0, 0>>, <<0, 0, 0, 0>>, <<0, 0, 0, 0>>>>,
  <<<<0, 0, 0, 0>>, <<0, 0, 0, 0>>, <<0, 0, 0, 0>>, <<0, 0, 0, 0>>, <<0, 0, 0, 0>>, <<0, 0, 0, 0>>, <<0, 0, 0, 0>>, <<0, 0, 0, 0>>, <<0, 0, 0, 0>>, <<0, 0, 0, 0>>, <<0, 0, 0, 0>>, <<0, 0, 0, 0>>, <<0, 0, 0, 0>>, <<142, 142, 197, 10>>, <<140, 140, 197, 231>>, <<140, 140, 197, 255>>, <<51, 51, 197, 255>>, <<51, 51, 197, 233>>, <<71, 71, 197, 11>>, <<0, 0, 0, 0>>, <<0, 0, 0, 0>>, <<0, 0, 0, 0>>, <<0, 0, 0, 0>>, <<0, 0, 0, 0>>, <<0, 0, 0, 0>>, <<0, 0, 0, 0>>, <<0, 0, 0, 0>>, <<0, 0, 0, 0>>, <<0, 0, 0, 0>>, <<0, 0, 0, 0>>, <<0, 0, 0, 0>>, <<0, 0, 0, 0>>>>,
  <<<<0, 0, 0, 0>>, <<0, 0, 0, 0>>, <<0, 0, 0, 0>>, <<0, 0, 0, 0>>, <<0, 0, 0, 0>>, <<0, 0, 0, 0>>, <<0, 0, 0, 0>>, <<0, 0, 0, 0>>, <<0, 0, 0, 0>>, <<0, 0, 0, 0>>, <<0, 0, 0, 0>>, <<0, 0, 0, 0>>, <<0, 0, 0, 0>>, <<141, 141, 197, 140>>, <<140, 140, 197, 255>>, <<140, 140, 197, 255>>, <<51, 51, 197, 255>>, <<51, 51, 197, 255>>, <<55, 55, 197, 141>>, <<0, 0, 0, 0>>, <<0, 0, 0, 0>>, <<0, 0, 0, 0>>, <<0, 0, 0, 0>>, <<0, 0, 0, 0>>, <<0, 0, 0, 0>>, <<0, 0, 0, 0>>, <<0, 0, 0, 0>>, <<0, 0, 0, 0>>, <<0, 0, 0, 0>>, <<0, 0, 0, 0>>, <<0, 0, 0, 0>>, <<0, 0, 0, 0>>>>,
  <<<<0, 0, 0, 0>>, <<0, 0, 0, 0>>, <<0, 0, 0, 0>>, <<0, 0, 0, 0>>, <<0, 0, 0, 0>>, <<0, 0, 0, 0>>, <<0, 0, 0, 0>>, <<0, 0, 0, 0>>, <<0, 0, 0, 0>>, <<0, 0, 0, 0>>, <<0, 0, 0, 0>>, <<0, 0, 0, 0>>, <<141, 141, 197, 41>>, <<140, 140, 197, 252>>, <<140, 140, 197, 255>>, <<140, 140, 197, 255>>, <<51, 51, 197, 255>>, <<51, 51, 197, 255>>, <<52, 52, 197, 254>>, <<59, 59, 197, 41>>, <<0, 0, 0, 0>>, <<0, 0, 0, 0>>, <<0, 0, 0, 0>>, <<0, 0, 0, 0>>, <<0, 0, 0, 0>>, <<0, 0, 0, 0>>, <<0, 0, 0, 0>>, <<0, 0, 0, 0>>, <<0, 0, 0, 0>>, <<0, 0, 0, 0>>, <<0, 0, 0, 0>>, <<0, 0, 0, 0>>>>,
  <<<<0, 0, 0, 0>>, <<0, 0, 0, 0>>, <<0, 0, 0, 0>>, <<0, 0, 0, 0>>, <<0, 0, 0, 0>>, <<0, 0, 0, 0>>, <<0, 0, 0, 0>>, <<0, 0, 0, 0>>, <<0, 0, 0, 0>>, <<0, 0, 0, 0>>, <<0, 0, 0, 0>>, <<0, 0, 0, 0>>, <<140, 140, 197, 193>>, <<140, 140, 197, 255>>, <<140, 140, 197, 255>>, <<140, 140, 197, 255>>, <<51, 51, 197, 255>>, <<51, 51, 197, 255>>, <<51, 51, 197, 255>>, <<54, 54, 197, 194>>, <<0, 0, 0, 0>>, <<0, 0, 0, 0>>, <<0, 0, 0, 0>>, <<0, 0, 0, 0>>, <<0, 0, 0, 0>>, <<0, 0, 0, 0>>, <<0, 0, 0, 0>>, <<0, 0, 0, 0>>, <<0, 0, 0, 0>>, <<0, 0, 0, 0>>, <<0, 0, 0, 0>>, <<0, 0, 0, 0>>>>,
  <<<<0, 0, 0, 0>>, <<0, 0, 0, 0>>, <<0, 0, 0, 0>>, <<0, 0, 0, 0>>, <<0, 0, 0, 0>>, <<0, 0, 0, 0>>, <<0, 0, 0, 0>>, <<0, 0, 0, 0>>, <<0, 0, 0, 0>>, <<0, 0, 0, 0>>, <<0, 0, 0, 0>>, <<141, 141, 197, 91>>, <<140, 140, 197, 255>>, <<140, 140, 197, 255>>, <<140, 140, 197, 255>>, <<140, 140, 197, 255>>, <<51, 51, 197, 255>>, <<51, 51, 197, 255>>, <<51, 51, 197, 255>>, <<51, 51, 197, 255>>, <<56, 56, 197, 93>>, <<0, 0, 0, 0>>, <<0, 0, 0, 0>>, <<0, 0, 0, 0>>, <<0, 0, 0, 0>>, <<0, 0, 0, 0>>, <<0, 0, 0, 0>>, <<0, 0, 0, 0>>, <<0, 0, 0, 0>>, <<0, 0, 0, 0>>, <<0, 0, 0, 0>>, <<0, 0, 0, 0>>>>,
  <<<<0, 0, 0, 0>>, <<0, 0, 0, 0>>, <<0, 0, 0, 0>>, <<0, 0, 0, 0>>, <<0, 0, 0, 0>>, <<0, 0, 0, 0>>, <<0, 0, 0, 0>>, <<0, 0, 0, 0>>, <<0, 0, 0, 0>>, <<0, 0, 0, 0>>, <<150, 150, 197, 11>>, <<140, 140, 197, 233>>, <<140, 140, 197, 255>>, <<140, 140, 197, 255>>, <<140, 140, 197, 255>>, <<140, 140, 197, 255>>, <<51, 51, 197, 255>>, <<51, 51, 197, 255>>, <<51, 51, 197, 255>>, <<51, 51, 197, 255>>, <<51, 51, 197, 234>>, <<93, 93, 197, 12>>, <<0, 0, 0, 0>>, <<0, 0, 0, 0>>, <<0, 0, 0, 0>>, <<0, 0, 0, 0>>, <<0, 0, 0, 0>>, <<0, 0, 0, 0>>, <<0, 0, 0, 0>>, <<0, 0, 0, 0>>, <<0, 0, 0, 0>>, <<0, 0, 0, 0>>>>,
  <<<<0, 0, 0, 0>>, <<0, 0, 0, 0>>, <<0, 0, 0, 0>>, <<0, 0, 0, 0>>, <<0, 0, 0, 0>>, <<0, 0, 0, 0>>, <<0, 0, 0, 0>>, <<0, 0, 0, 0>>, <<0, 0, 0, 0>>, <<0, 0, 0, 0>>, <<141, 141, 197, 143>>, <<140, 140, 197, 255>>, <<140, 140, 197, 255>>, <<140, 140, 197, 255>>, <<140, 140, 197, 255>>, <<140, 140, 197, 255>>, <<51, 51, 197, 255>>, <<51, 51, 197, 255>>, <<51, 51, 197, 255>>, <<51, 51, 197, 255>>, <<51, 51, 197, 255>>, <<56, 56, 197, 145>>, <<0, 0, 0, 0>>, <<0, 0, 0, 0>>, <<0, 0, 0, 0>>, <<0, 0, 0, 0>>, <<0, 0, 0, 0>>, <<0, 0, 0, 0>>, <<0, 0, 0, 0>>, <<0, 0, 0, 0>>, <<0, 0, 0, 0>>, <<0, 0, 0, 0>>>>,
  <<<<0, 0, 0, 0>>, <<0, 0, 0, 0>>, <<0, 0, 0, 0>>, <<0, 0, 0, 0>>, <<0, 0, 0, 0>>, <<0, 0, 0, 0>>, <<0, 0, 0, 0>>, <<0, 0, 0, 0>>, <<0, 0, 0, 0>>, <<143, 143, 197, 43>>, <<140, 140, 197, 254>>, <<140, 140, 197, 255>>, <<140, 140, 197, 255>>, <<140, 140, 197, 255>>, <<140, 140, 197, 255>>, <<140, 140, 197, 255>>, <<51, 51, 197, 255>>, <<51, 51, 197, 255>>, <<51, 51, 197, 255>>, <<51, 51, 197, 255>>, <<51, 51, 197, 255>>, <<51, 51, 197, 255>>, <<62, 62, 197, 44>>, <<0, 0, 0, 0>>, <<0, 0, 0, 0>>, <<0, 0, 0, 0>>, <<0, 0, 0, 0>>, <<0, 0, 0, 0>>, <<0, 0, 0, 0>>, <<0, 0, 0, 0>>, <<0, 0, 0, 0>>, <<0, 0, 0, 0>>>>,
  <<<<0, 0, 0, 0>>, <<0, 0, 0, 0>>, <<0, 0, 0, 0>>, <<0, 0, 0, 0>>, <<0, 0, 0, 0>>, <<0, 0, 0, 0>>, <<0, 0, 0, 0>>, <<0, 0, 0, 0>>, <<0, 0, 0, 0>>, <<140, 140, 197, 196>>, <<140, 140, 197, 255>>, <<140, 140, 197, 255>>, <<140, 140, 197, 255>>, <<140, 140, 197, 255>>, <<140, 140, 197, 255>>, <<140, 140, 197, 255>>, <<51, 51, 197, 255>>, <<51, 51, 197, 255>>, <<51, 51, 197, 255>>, <<51, 51, 197, 255>>, <<51, 51, 197, 255>>, <<51, 51, 197, 255>>, <<54, 54, 197, 198>>, <<0, 0, 0, 0>>, <<0, 0, 0, 0>>, <<0, 0, 0, 0>>, <<0, 0, 0, 0>>, <<0, 0, 0, 0>>, <<0, 0, 0, 0>>, <<0, 0, 0, 0>>, <<0, 0, 0, 0>>, <<0, 0, 0, 0>>>>,
  <<<<0, 0, 0, 0>>, <<0, 0, 0, 0>>, <<0, 0, 0, 0>>, <<0, 0, 0, 0>>, <<0, 0, 0, 0>>, <<0, 0, 0, 0>>, <<0, 0, 0, 0>>, <<0, 0, 0, 0>>, <<141, 141, 197, 94>>, <<140, 140, 197, 255>>, <<140, 140, 197, 255>>, <<140, 140, 197, 255>>, <<140, 140, 197, 255>>, <<140, 140, 197, 255>>, <<126, 126, 197, 255>>, <<96, 96, 197, 255>>, <<47, 34, 197, 255>>, <<47, 46, 197, 255>>, <<51, 51, 197, 255>>, <<51, 51, 197, 255>>, <<51, 51, 197, 255>>, <<51, 51, 197, 255>>, <<51, 51, 197, 255>>, <<58, 58, 197, 96>>, <<0, 0, 0, 0>>, <<0, 0, 0, 0>>, <<0, 0, 0, 0>>, <<0, 0, 0, 0>>, <<0, 0, 0, 0>>, <<0, 0, 0, 0>>, <<0, 0, 0, 0>>, <<0, 0, 0, 0>>>>,
  <<<<0, 0, 0, 0>>, <<0, 0, 0, 0>>, <<0, 0, 0, 0>>, <<0, 0, 0, 0>>, <<0, 0, 0, 0>>, <<0, 0, 0, 0>>, <<0, 0, 0, 0>>, <<149, 149, 197, 13>>, <<140, 140, 197, 234>>, <<140, 140, 197, 255>>, <<140, 140, 197, 255>>, <<140, 140, 197, 255>>, <<120, 120, 197, 255>>, <<86, 86, 197, 255>>, <<56, 56, 197, 255>>, <<56, 56, 197, 255>>, <<47, 20, 197, 255>>, <<47, 20, 197, 255>>, <<47, 30, 197, 255>>, <<47, 43, 197, 255>>, <<51, 51, 197, 255>>, <<51, 51, 197, 255>>, <<51, 51, 197, 255>>, <<51, 51, 197, 235>>, <<86, 86, 197, 15>>, <<0, 0, 0, 0>>, <<0, 0, 0, 0>>, <<0, 0, 0, 0>>, <<0, 0, 0, 0>>, <<0, 0, 0, 0>>, <<0, 0, 0, 0>>, <<0, 0, 0, 0>>>>,
  <<<<0, 0, 0, 0>>, <<0, 0, 0, 0>>, <<0, 0, 0, 0>>, <<0, 0, 0, 0>>, <<0, 0, 0, 0>>, <<0, 0, 0, 0>>, <<0, 0, 0, 0>>, <<141, 141, 197, 147>>, <<140, 140, 197, 255>>, <<138, 138, 197, 255>>, <<114, 114, 197, 255>>, <<78, 78, 197, 255>>, <<56, 56, 197, 255>>, <<56, 56, 197, 255>>, <<56, 56, 197, 255>>, <<56, 56, 197, 255>>, <<47, 20, 197, 255>>, <<47, 20, 197, 255>>, <<47, 20, 197, 255>>, <<47, 20, 197, 255>>, <<47, 27, 197, 255>>, <<47, 41, 197, 255>>, <<50, 50, 197, 255>>, <<51, 51, 197, 255>>, <<56, 56, 197, 149>>, <<0, 0, 0, 0>>, <<0, 0, 0, 0>>, <<0, 0, 0, 0>>, <<0, 0, 0, 0>>, <<0, 0, 0, 0>>, <<0, 0, 0, 0>>, <<0, 0, 0, 0>>>>,
  <<<<0, 0, 0, 0>>, <<0, 0, 0, 0>>, <<0, 0, 0, 0>>, <<0, 0, 0, 0>>, <<0, 0, 0, 0>>, <<0, 0, 0, 0>>, <<142, 142, 197, 45>>, <<135, 135, 197, 255>>, <<108, 108, 197, 255>>, <<68, 68, 197, 255>>, <<56, 56, 197, 255>>, <<56, 56, 197, 255>>, <<56, 56, 197, 255>>, <<56, 56, 197, 255>>, <<56, 56, 197, 255>>, <<56, 56, 197, 255>>, <<47, 20, 197, 255>>, <<47, 20, 197, 255>>, <<47, 20, 197, 255>>, <<47, 20, 197, 255>>, <<47, 20, 197, 255>>, <<47, 20, 197, 255>>, <<47, 24, 197, 255>>, <<47, 39, 197, 255>>, <<49, 49, 197, 255>>, <<65, 65, 197, 47>>, <<0, 0, 0, 0>>, <<0, 0, 0, 0>>, <<0, 0, 0, 0>>, <<0, 0, 0, 0>>, <<0, 0, 0, 0>>, <<0, 0, 0, 0>>>>,
  <<<<0, 0, 0, 0>>, <<0, 0, 0, 0>>, <<0, 0, 0, 0>>, <<0, 0, 0, 0>>, <<0, 0, 0, 0>>, <<0, 0, 0, 0>>, <<100, 100, 197, 144>>, <<63, 63, 197, 255>>, <<56, 56, 197, 255>>, <<56, 56, 197, 255>>, <<56, 56, 197, 255>>, <<56, 56, 197, 255>>, <<56, 56, 197, 255>>, <<56, 56, 197, 255>>, <<56, 56, 197, 255>>, <<56, 56, 197, 255>>, <<47, 20, 197, 255>>, <<47, 20, 197, 255>>, <<47, 20, 197, 255>>, <<47, 20, 197, 255>>, <<47, 20, 197, 255>>, <<47, 20, 197, 255>>, <<47, 20, 197, 255>>, <<47, 20, 197, 255>>, <<47, 22, 197, 255>>, <<47, 39, 197, 144>>, <<0, 0, 0, 0>>, <<0, 0, 0, 0>>, <<0, 0, 0, 0>>, <<0, 0, 0, 0>>, <<0, 0, 0, 0>>, <<0, 0, 0, 0>>>>,
  <<<<0, 0, 0, 0>>, <<0, 0, 0, 0>>, <<0, 0, 0, 0>>, <<0, 0, 0, 0>>, <<0, 0, 0, 0>>, <<0, 0, 0, 0>>, <<0, 0, 0, 0>>, <<61, 61, 197, 91>>, <<59, 59, 197, 231>>, <<56, 56, 197, 255>>, <<56, 56, 197, 255>>, <<56, 56, 197, 255>>, <<56, 56, 197, 255>>, <<56, 56, 197, 255>>, <<56, 56, 197, 255>>, <<56, 56, 197, 255>>, <<47, 20, 197, 255>>, <<47, 20, 197, 255>>, <<47, 20, 197, 255>>, <<47, 20, 197, 255>>, <<47, 20, 197, 255>>, <<47, 20, 197, 255>>, <<47, 20, 197, 255>>, <<47, 25, 197, 232>>, <<47, 31, 197, 91>>, <<0, 0, 0, 0>>, <<0, 0, 0, 0>>, <<0, 0, 0, 0>>, <<0, 0, 0, 0>>, <<0, 0, 0, 0>>, <<0, 0, 0, 0>>, <<0, 0, 0, 0>>>>,
  <<<<0, 0, 0, 0>>, <<0, 0, 0, 0>>, <<0, 0, 0, 0>>, <<0, 0, 0, 0>>, <<0, 0, 0, 0>>, <<0, 0, 0, 0>>, <<143, 143, 197, 64>>, <<141, 141, 197, 77>>, <<55, 55, 197, 10>>, <<61, 61, 197, 138>>, <<58, 58, 197, 247>>, <<56, 56, 197, 255>>, <<56, 56, 197, 255>>, <<56, 56, 197, 255>>, <<56, 56, 197, 255>>, <<56, 56, 197, 255>>, <<47, 20, 197, 255>>, <<47, 20, 197, 255>>, <<47, 20, 197, 255>>, <<47, 20, 197, 255>>, <<47, 20, 197, 255>>, <<47, 25, 197, 248>>, <<47, 32, 197, 138>>, <<47, 16, 197, 10>>, <<58, 58, 197, 80>>, <<66, 66, 197, 71>>, <<0, 0, 0, 0>>, <<0, 0, 0, 0>>, <<0, 0, 0, 0>>, <<0, 0, 0, 0>>, <<0, 0, 0, 0>>, <<0, 0, 0, 0>>>>,
  <<<<0, 0, 0, 0>>, <<0, 0, 0, 0>>, <<0, 0, 0, 0>>, <<0, 0, 0, 0>>, <<0, 0, 0, 0>>, <<0, 0, 0, 0>>, <<0, 0, 0, 0>>, <<141, 141, 197, 176>>, <<140, 140, 197, 181>>, <<139, 139, 197, 39>>, <<58, 58, 197, 40>>, <<59, 59, 197, 183>>, <<56, 56, 197, 255>>, <<56, 56, 197, 255>>, <<56, 56, 197, 255>>, <<56, 56, 197, 255>>, <<47, 20, 197, 255>>, <<47, 20, 197, 255>>, <<47, 20, 197, 255>>, <<47, 20, 197, 255>>, <<47, 27, 197, 184>>, <<47, 25, 197, 40>>, <<49, 49, 197, 41>>, <<55, 55, 197, 185>>, <<54, 54, 197, 179>>, <<0, 0, 0, 0>>, <<0, 0, 0, 0>>, <<0, 0, 0, 0>>, <<0, 0, 0, 0>>, <<0, 0, 0, 0>>, <<0, 0, 0, 0>>, <<0, 0, 0, 0>>>>,
  <<<<0, 0, 0, 0>>, <<0, 0, 0, 0>>, <<0, 0, 0, 0>>, <<0, 0, 0, 0>>, <<0, 0, 0, 0>>, <<0, 0, 0, 0>>, <<0, 0, 0, 0>>, <<141, 141, 197, 18>>, <<140, 140, 197, 228>>, <<140, 140, 197, 246>>, <<141, 141, 197, 136>>, <<140, 140, 197, 10>>, <<63, 63, 197, 79>>, <<58, 58, 197, 219>>, <<56, 56, 197, 255>>, <<56, 56, 197, 255>>, <<47, 20, 197, 255>>, <<47, 20, 197, 255>>, <<47, 25, 197, 219>>, <<47, 36, 197, 79>>, <<51, 51, 197, 10>>, <<55, 55, 197, 138>>, <<53, 53, 197, 249>>, <<54, 54, 197, 231>>, <<56, 56, 197, 21>>, <<0, 0, 0, 0>>, <<0, 0, 0, 0>>, <<0, 0, 0, 0>>, <<0, 0, 0, 0>>, <<0, 0, 0, 0>>, <<0, 0, 0, 0>>, <<0, 0, 0, 0>>>>,
  <<<<0, 0, 0, 0>>, <<0, 0, 0, 0>>, <<0, 0, 0, 0>>, <<0, 0, 0, 0>>, <<0, 0, 0, 0>>, <<0, 0, 0, 0>>, <<0, 0, 0, 0>>, <<0, 0, 0, 0>>, <<140, 140, 197, 72>>, <<140, 140, 197, 255>>, <<140, 140, 197, 255>>, <<140, 140, 197, 228>>, <<141, 141, 197, 89>>, <<50, 50, 197, 10>>, <<61, 61, 197, 125>>, <<56, 56, 197, 245>>, <<47, 20, 197, 245>>, <<47, 34, 197, 125>>, <<47, 9, 197, 10>>, <<55, 55, 197, 91>>, <<53, 53, 197, 233>>, <<51, 51, 197, 255>>, <<51, 51, 197, 255>>, <<57, 57, 197, 73>>, <<0, 0, 0, 0>>, <<0, 0, 0, 0>>, <<0, 0, 0, 0>>, <<0, 0, 0, 0>>, <<0, 0, 0, 0>>, <<0, 0, 0, 0>>, <<0, 0, 0, 0>>, <<0, 0, 0, 0>>>>,
  <<<<0, 0, 0, 0>>, <<0, 0, 0, 0>>, <<0, 0, 0, 0>>, <<0, 0, 0, 0>>, <<0, 0, 0, 0>>, <<0, 0, 0, 0>>, <<0, 0, 0, 0>>, <<0, 0, 0, 0>>, <<0, 0, 0, 0>>, <<141, 141, 197, 140>>, <<140, 140, 197, 255>>, <<140, 140, 197, 255>>, <<140, 140, 197, 255>>, <<140, 140, 197, 194>>, <<143, 143, 197, 42>>, <<70, 70, 197, 31>>, <<47, 47, 197, 31>>, <<66, 66, 197, 44>>, <<52, 52, 197, 195>>, <<51, 51, 197, 255>>, <<51, 51, 197, 255>>, <<51, 51, 197, 255>>, <<58, 58, 197, 143>>, <<0, 0, 0, 0>>, <<0, 0, 0, 0>>, <<0, 0, 0, 0>>, <<0, 0, 0, 0>>, <<0, 0, 0, 0>>, <<0, 0, 0, 0>>, <<0, 0, 0, 0>>, <<0, 0, 0, 0>>, <<0, 0, 0, 0>>>>,
  <<<<0, 0, 0, 0>>, <<0, 0, 0, 0>>, <<0, 0, 0, 0>>, <<0, 0, 0, 0>>, <<0, 0, 0, 0>>, <<0, 0, 0, 0>>, <<0, 0, 0, 0>>, <<0, 0, 0, 0>>, <<0, 0, 0, 0>>, <<136, 136, 197, 10>>, <<140, 140, 197, 211>>, <<140, 140, 197, 255>>, <<140, 140, 197, 255>>, <<140, 140, 197, 255>>, <<140, 140, 197, 254>>, <<141, 141, 197, 147>>, <<56, 56, 197, 149>>, <<51, 51, 197, 255>>, <<51, 51, 197, 255>>, <<51, 51, 197, 255>>, <<51, 51, 197, 255>>, <<52, 52, 197, 213>>, <<47, 44, 197, 10>>, <<0, 0, 0, 0>>, <<0, 0, 0, 0>>, <<0, 0, 0, 0>>, <<0, 0, 0, 0>>, <<0, 0, 0, 0>>, <<0, 0, 0, 0>>, <<0, 0, 0, 0>>, <<0, 0, 0, 0>>, <<0, 0, 0, 0>>>>,
  <<<<0, 0, 0, 0>>, <<0, 0, 0, 0>>, <<0, 0, 0, 0>>, <<0, 0, 0, 0>>, <<0, 0, 0, 0>>, <<0, 0, 0, 0>>, <<0, 0, 0, 0>>, <<0, 0, 0, 0>>, <<0, 0, 0, 0>>, <<0, 0, 0, 0>>, <<143, 143, 197, 42>>, <<140, 140, 197, 245>>, <<140, 140, 197, 255>>, <<140, 140, 197, 255>>, <<140, 140, 197, 255>>, <<140, 140, 197, 255>>, <<51, 51, 197, 255>>, <<51, 51, 197, 255>>, <<51, 51, 197, 255>>, <<51, 51, 197, 255>>, <<51, 51, 197, 245>>, <<65, 65, 197, 44>>, <<0, 0, 0, 0>>, <<0, 0, 0, 0>>, <<0, 0, 0, 0>>, <<0, 0, 0, 0>>, <<0, 0, 0, 0>>, <<0, 0, 0, 0>>, <<0, 0, 0, 0>>, <<0, 0, 0, 0>>, <<0, 0, 0, 0>>, <<0, 0, 0, 0>>>>,
  <<<<0, 0, 0, 0>>, <<0, 0, 0, 0>>, <<0, 0, 0, 0>>, <<0, 0, 0, 0>>, <<0, 0, 0, 0>>, <<0, 0, 0, 0>>, <<0, 0, 0, 0>>, <<0, 0, 0, 0>>, <<0, 0, 0, 0>>, <<0, 0, 0, 0>>, <<0, 0, 0, 0>>, <<141, 141, 197, 111>>, <<140, 140, 197, 255>>, <<140, 140, 197, 255>>, <<140, 140, 197, 255>>, <<140, 140, 197, 255>>, <<51, 51, 197, 255>>, <<51, 51, 197, 255>>, <<51, 51, 197, 255>>, <<51, 51, 197, 255>>, <<57, 57, 197, 116>>, <<0, 0, 0, 0>>, <<0, 0, 0, 0>>, <<0, 0, 0, 0>>, <<0, 0, 0, 0>>, <<0, 0, 0, 0>>, <<0, 0, 0, 0>>, <<0, 0, 0, 0>>, <<0, 0, 0, 0>>, <<0, 0, 0, 0>>, <<0, 0, 0, 0>>, <<0, 0, 0, 0>>>>,
  <<<<0, 0, 0, 0>>, <<0, 0, 0, 0>>, <<0, 0, 0, 0>>, <<0, 0, 0, 0>>, <<0, 0, 0, 0>>, <<0, 0, 0, 0>>, <<0, 0, 0, 0>>, <<0, 0, 0, 0>>, <<0, 0, 0, 0>>, <<0, 0, 0, 0>>, <<0, 0, 0, 0>>, <<0, 0, 0, 0>>, <<140, 140, 197, 183>>, <<140, 140, 197, 255>>, <<140, 140, 197, 255>>, <<140, 140, 197, 255>>, <<51, 51, 197, 255>>, <<51, 51, 197, 255>>, <<51, 51, 197, 255>>, <<52, 52, 197, 184>>, <<0, 0, 0, 0>>, <<0, 0, 0, 0>>, <<0, 0, 0, 0>>, <<0, 0, 0, 0>>, <<0, 0, 0, 0>>, <<0, 0, 0, 0>>, <<0, 0, 0, 0>>, <<0, 0, 0, 0>>, <<0, 0, 0, 0>>, <<0, 0, 0, 0>>, <<0, 0, 0, 0>>, <<0, 0, 0, 0>>>>,
  <<<<0, 0, 0, 0>>, <<0, 0, 0, 0>>, <<0, 0, 0, 0>>, <<0, 0, 0, 0>>, <<0, 0, 0, 0>>, <<0, 0, 0, 0>>, <<0, 0, 0, 0>>, <<0, 0, 0, 0>>, <<0, 0, 0, 0>>, <<0, 0, 0, 0>>, <<0, 0, 0, 0>>, <<0, 0, 0, 0>>, <<145, 145, 197, 25>>, <<140, 140, 197, 234>>, <<140, 140, 197, 255>>, <<140, 140, 197, 255>>, <<51, 51, 197, 255>>, <<51, 51, 197, 255>>, <<53, 53, 197, 236>>, <<71, 71, 197, 27>>, <<0, 0, 0, 0>>, <<0, 0, 0, 0>>, <<0, 0, 0, 0>>, <<0, 0, 0, 0>>, <<0, 0, 0, 0>>, <<0, 0, 0, 0>>, <<0, 0, 0, 0>>, <<0, 0, 0, 0>>, <<0, 0, 0, 0>>, <<0, 0, 0, 0>>, <<0, 0, 0, 0>>, <<0, 0, 0, 0>>>>,
  <<<<0, 0, 0, 0>>, <<0, 0, 0, 0>>, <<0, 0, 0, 0>>, <<0, 0, 0, 0>>, <<0, 0, 0, 0>>, <<0, 0, 0, 0>>, <<0, 0, 0, 0>>, <<0, 0, 0, 0>>, <<0, 0, 0, 0>>, <<0, 0, 0, 0>>, <<0, 0, 0, 0>>, <<0, 0, 0, 0>>, <<0, 0, 0, 0>>, <<141, 141, 197, 77>>, <<140, 140, 197, 255>>, <<140, 140, 197, 255>>, <<51, 51, 197, 255>>, <<51, 51, 197, 255>>, <<56, 56, 197, 79>>, <<0, 0, 0, 0>>, <<0, 0, 0, 0>>, <<0, 0, 0, 0>>, <<0, 0, 0, 0>>, <<0, 0, 0, 0>>, <<0, 0, 0, 0>>, <<0, 0, 0, 0>>, <<0, 0, 0, 0>>, <<0, 0, 0, 0>>, <<0, 0, 0, 0>>, <<0, 0, 0, 0>>, <<0, 0, 0, 0>>, <<0, 0, 0, 0>>>>,
  <<<<0, 0, 0, 0>>, <<0, 0, 0, 0>>, <<0, 0, 0, 0>>, <<0, 0, 0, 0>>, <<0, 0, 0, 0>>, <<0, 0, 0, 0>>, <<0, 0, 0, 0>>, <<0, 0, 0, 0>>, <<0, 0, 0, 0>>, <<0, 0, 0, 0>>, <<0, 0, 0, 0>>, <<0, 0, 0, 0>>, <<0, 0, 0, 0>>, <<0, 0, 0, 0>>, <<140, 140, 197, 149>>, <<140, 140, 197, 255>>, <<51, 51, 197, 255>>, <<55, 55, 197, 154>>, <<0, 0, 0, 0>>, <<0, 0, 0, 0>>, <<0, 0, 0, 0>>, <<0, 0, 0, 0>>, <<0, 0, 0, 0>>, <<0, 0, 0, 0>>, <<0, 0, 0, 0>>, <<0, 0, 0, 0>>, <<0, 0, 0, 0>>, <<0, 0, 0, 0>>, <<0, 0, 0, 0>>, <<0, 0, 0, 0>>, <<0, 0, 0, 0>>, <<0, 0, 0, 0>>>>,
  <<<<0, 0, 0, 0>>, <<0, 0, 0, 0>>, <<0, 0, 0, 0>>, <<0, 0, 0, 0>>, <<0, 0, 0, 0>>, <<0, 0, 0, 0>>, <<0, 0, 0, 0>>, <<0, 0, 0, 0>>, <<0, 0, 0, 0>>, <<0, 0, 0, 0>>, <<0, 0, 0, 0>>, <<0, 0, 0, 0>>, <<0, 0, 0, 0>>, <<0, 0, 0, 0>>, <<140, 140, 197, 10>>, <<140, 140, 197, 216>>, <<54, 54, 197, 217>>, <<51, 51, 197, 10>>, <<0, 0, 0, 0>>, <<0, 0, 0, 0>>, <<0, 0, 0, 0>>, <<0, 0, 0, 0>>, <<0, 0, 0, 0>>, <<0, 0, 0, 0>>, <<0, 0, 0, 0>>, <<0, 0, 0, 0>>, <<0, 0, 0, 0>>, <<0, 0, 0, 0>>, <<0, 0, 0, 0>>, <<0, 0, 0, 0>>, <<0, 0, 0, 0>>, <<0, 0, 0, 0>>>>,
  <<<<0, 0, 0, 0>>, <<0, 0, 0, 0>>, <<0, 0, 0, 0>>, <<0, 0, 0, 0>>, <<0, 0, 0, 0>>, <<0, 0, 0, 0>>, <<0, 0, 0, 0>>, <<0, 0, 0, 0>>, <<0, 0, 0, 0>>, <<0, 0, 0, 0>>, <<0, 0, 0, 0>>, <<0, 0, 0, 0>>, <<0, 0, 0, 0>>, <<0, 0, 0, 0>>, <<0, 0, 0, 0>>, <<140, 140, 197, 49>>, <<52, 52, 197, 51>>, <<0, 0, 0, 0>>, <<0, 0, 0, 0>>, <<0, 0, 0, 0>>, <<0, 0, 0, 0>>, <<0, 0, 0, 0>>, <<0, 0, 0, 0>>, <<0, 0, 0, 0>>, <<0, 0, 0, 0>>, <<0, 0, 0, 0>>, <<0, 0, 0, 0>>, <<0, 0, 0, 0>>, <<0, 0, 0, 0>>, <<0, 0, 0, 0>>, <<0, 0, 0, 0>>, <<0, 0, 0, 0>>>>
  >>

\* the pixels of the "cardano" asset (a 32 x 32 RGBA PNG), row by row
CardanoAsset ==
  <<
  <<<<0, 0, 0, 0>>, <<0, 0, 0, 0>>, <<0, 0, 0, 0>>, <<0, 0, 0, 0>>, <<0, 0, 0, 0>>, <<0, 0, 0, 0>>, <<0, 0, 0, 0>>, <<0, 0, 0, 0>>, <<0, 0, 0, 0>>, <<0, 0, 0, 0>>, <<0, 0, 0, 0>>, <<0, 0, 0, 0>>, <<0, 0, 0, 0>>, <<0, 0, 0, 0>>, <<0, 0, 0, 0>>, <<0, 0, 0, 0>>, <<0, 0, 0, 0>>, <<0, 0, 0, 0>>, <<0, 0, 0, 0>>, <<0, 0, 0, 0>>, <<0, 0, 0, 0>>, <<0, 0, 0, 0>>, <<0, 0, 0, 0>>, <<0, 0, 0, 0>>, <<0, 0, 0, 0>>, <<0, 0, 0, 0>>, <<0, 0, 0, 0>>, <<0, 0, 0, 0>>, <<0, 0, 0, 0>>, <<0, 0, 0, 0>>, <<0, 0, 0, 0>>, <<0, 0, 0, 0>>>>,
  <<<<0, 0, 0, 0>>, <<0, 0, 0, 0>>, <<0, 0, 0, 0>>, <<0, 0, 0, 0>>, <<0, 0, 0, 0>>, <<0, 0, 0, 0>>, <<0, 0, 0, 0>>, <<0, 0, 0, 0>>, <<0, 0, 0, 0>>, <<0, 0, 0, 0>>, <<0, 0, 0, 0>>, <<0, 0, 0, 0>>, <<0, 0, 0, 0>>, <<0, 0, 0, 0>>, <<0, 0, 0, 0>>, <<0, 51, 173, 138>>, <<0, 51, 173, 132>>, <<0, 0, 0, 0>>, <<0, 0, 0, 0>>, <<0, 0, 0, 0>>, <<0, 0, 0, 0>>, <<0, 0, 0, 0>>, <<0, 0, 0, 0>>, <<0, 0, 0, 0>>, <<0, 0, 0, 0>>, <<0, 0, 0, 0>>, <<0, 0, 0, 0>>, <<0, 0, 0, 0>>, <<0, 0, 0, 0>>, <<0, 0, 0, 0>>, <<0, 0, 0, 0>>, <<0, 0, 0, 0>>>>,
  <<<<0, 0, 0, 0>>, <<0, 0, 0, 0>>, <<0, 0, 0, 0>>, <<0, 0, 0, 0>>, <<0, 0, 0, 0>>, <<0, 0, 0, 0>>, <<0, 0, 0, 0>>, <<0, 51, 173, 71>>, <<0, 51, 173, 219>>, <<0, 0, 0, 0>>, <<0, 0, 0, 0>>, <<0, 0, 0, 0>>, <<0, 0, 0, 0>>, <<0, 0, 0, 0>>, <<0, 0, 0, 0>>, <<0, 51, 173, 188>>, <<0, 51, 173, 173>>, <<0, 0, 0, 0>>, <<0, 0, 0, 0>>, <<0, 0, 0, 0>>, <<0, 0, 0, 0>>, <<0, 0, 0, 0>>, <<0, 0, 0, 0>>, <<0, 51, 173, 235>>, <<0, 51, 173, 52>>, <<0, 0, 0, 0>>, <<0, 0, 0, 0>>, <<0, 0, 0, 0>>, <<0, 0, 0, 0>>, <<0, 0, 0, 0>>, <<0, 0, 0, 0>>, <<0, 0, 0, 0>>>>,
  <<<<0, 0, 0, 0>>, <<0, 0, 0, 0>>, <<0, 0, 0, 0>>, <<0, 0, 0, 0>>, <<0, 0, 0, 0>>, <<0, 0, 0, 0>>, <<0, 0, 0, 0>>, <<0, 51, 173, 20>>, <<0, 51, 173, 92>>, <<0, 0, 0, 0>>, <<0, 0, 0, 0>>, <<0, 0, 0, 0>>, <<0, 0, 0, 0>>, <<0, 0, 0, 0>>, <<0, 0, 0, 0>>, <<0, 0, 0, 0>>, <<0, 0, 0, 0>>, <<0, 0, 0, 0>>, <<0, 0, 0, 0>>, <<0, 0, 0, 0>>, <<0, 0, 0, 0>>, <<0, 0, 0, 0>>, <<0, 0, 0, 0>>, <<0, 51, 173, 92>>, <<0, 51, 173, 10>>, <<0, 0, 0, 0>>, <<0, 0, 0, 0>>, <<0, 0, 0, 0>>, <<0, 0, 0, 0>>, <<0, 0, 0, 0>>, <<0, 0, 0, 0>>, <<0, 0, 0, 0>>>>,
  <<<<0, 0, 0, 0>>, <<0, 0, 0, 0>>, <<0, 0, 0, 0>>, <<0, 0, 0, 0>>, <<0, 0, 0, 0>>, <<0, 0, 0, 0>>, <<0, 0, 0, 0>>, <<0, 0, 0, 0>>, <<0, 0, 0, 0>>, <<0, 0, 0, 0>>, <<0, 0, 0, 0>>, <<0, 0, 0, 0>>, <<0, 0, 0, 0>>, <<0, 0, 0, 0>>, <<0, 0, 0, 0>>, <<0, 0, 0, 0>>, <<0, 0, 0, 0>>, <<0, 0, 0, 0>>, <<0, 0, 0, 0>>, <<0, 0, 0, 0>>, <<0, 0, 0, 0>>, <<0, 0, 0, 0>>, <<0, 0, 0, 0>>, <<0, 0, 0, 0>>, <<0, 0, 0, 0>>, <<0, 0, 0, 0>>, <<0, 0, 0, 0>>, <<0, 0, 0, 0>>, <<0, 0, 0, 0>>, <<0, 0, 0, 0>>, <<0, 0, 0, 0>>, <<0, 0, 0, 0>>>>,
  <<<<0, 0, 0, 0>>, <<0, 0, 0, 0>>, <<0, 0, 0, 0>>, <<0, 0, 0, 0>>, <<0, 0, 0, 0>>, <<0, 0, 0, 0>>, <<0, 0, 0, 0>>, <<0, 0, 0, 0>>, <<0, 0, 0, 0>>, <<0, 51, 173, 92>>, <<0, 51, 173, 194>>, <<0, 51, 173, 40>>, <<0, 0, 0, 0>>, <<0, 0, 0, 0>>, <<0, 0, 0, 0>>, <<0, 0, 0, 0>>, <<0, 0, 0, 0>>, <<0, 0, 0, 0>>, <<0, 0, 0, 0>>, <<0, 0, 0, 0>>, <<0, 51, 173, 51>>, <<0, 51, 173, 204>>, <<0, 51, 173, 92>>, <<0, 0, 0, 0>>, <<0, 0, 0, 0>>, <<0, 0, 0, 0>>, <<0, 0, 0, 0>>, <<0, 0, 0, 0>>, <<0, 0, 0, 0>>, <<0, 0, 0, 0>>, <<0, 0, 0, 0>>, <<0, 0, 0, 0>>>>,
  <<<<0, 0, 0, 0>>, <<0, 0, 0, 0>>, <<0, 0, 0, 0>>, <<0, 0, 0, 0>>, <<0, 0, 0, 0>>, <<0, 0, 0, 0>>, <<0, 0, 0, 0>>, <<0, 0, 0, 0>>, <<0, 0, 0, 0>>, <<0, 51, 173, 178>>, <<0, 51, 173, 255>>, <<0, 51, 173, 89>>, <<0, 0, 0, 0>>, <<0, 0, 0, 0>>, <<0, 51, 173, 20>>, <<0, 51, 173, 214>>, <<0, 51, 173, 214>>, <<0, 51, 173, 12>>, <<0, 0, 0, 0>>, <<0, 0, 0, 0>>, <<0, 51, 173, 92>>, <<0, 51, 173, 255>>, <<0, 51, 173, 153>>, <<0, 0, 0, 0>>, <<0, 0, 0, 0>>, <<0, 0, 0, 0>>, <<0, 0, 0, 0>>, <<0, 0, 0, 0>>, <<0, 0, 0, 0>>, <<0, 0, 0, 0>>, <<0, 0, 0, 0>>, <<0, 0, 0, 0>>>>,
  <<<<0, 0, 0, 0>>, <<0, 0, 0, 0>>, <<0, 0, 0, 0>>, <<0, 0, 0, 0>>, <<0, 0, 0, 0>>, <<0, 0, 0, 0>>, <<0, 0, 0, 0>>, <<0, 0, 0, 0>>, <<0, 0, 0, 0>>, <<0, 51, 173, 16>>, <<0, 51, 173, 65>>, <<0, 0, 0, 0>>, <<0, 0, 0, 0>>, <<0, 0, 0, 0>>, <<0, 51, 173, 52>>, <<0, 51, 173, 255>>, <<0, 51, 173, 255>>, <<0, 51, 173, 42>>, <<0, 0, 0, 0>>, <<0, 0, 0, 0>>, <<0, 0, 0, 0>>, <<0, 51, 173, 52>>, <<0, 51, 173, 10>>, <<0, 0, 0, 0>>, <<0, 0, 0, 0>>, <<0, 0, 0, 0>>, <<0, 0, 0, 0>>, <<0, 0, 0, 0>>, <<0, 0, 0, 0>>, <<0, 0, 0, 0>>, <<0, 0, 0, 0>>, <<0, 0, 0, 0>>>>,
  <<<<0, 0, 0, 0>>, <<0, 0, 0, 0>>, <<0, 0, 0, 0>>, <<0, 51, 173, 154>>, <<0, 51, 173, 133>>, <<0, 0, 0, 0>>, <<0, 0, 0, 0>>, <<0, 0, 0, 0>>, <<0, 0, 0, 0>>, <<0, 0, 0, 0>>, <<0, 0, 0, 0>>, <<0, 0, 0, 0>>, <<0, 0, 0, 0>>, <<0, 0, 0, 0>>, <<0, 0, 0, 0>>, <<0, 51, 173, 112>>, <<0, 51, 173, 112>>, <<0, 0, 0, 0>>, <<0, 0, 0, 0>>, <<0, 0, 0, 0>>, <<0, 0, 0, 0>>, <<0, 0, 0, 0>>, <<0, 0, 0, 0>>, <<0, 0, 0, 0>>, <<0, 0, 0, 0>>, <<0, 0, 0, 0>>, <<0, 0, 0, 0>>, <<0, 51, 173, 143>>, <<0, 51, 173, 153>>, <<0, 0, 0, 0>>, <<0, 0, 0, 0>>, <<0, 0, 0, 0>>>>,
  <<<<0, 0, 0, 0>>, <<0, 0, 0, 0>>, <<0, 0, 0, 0>>, <<0, 51, 173, 193>>, <<0, 51, 173, 164>>, <<0, 0, 0, 0>>, <<0, 0, 0, 0>>, <<0, 0, 0, 0>>, <<0, 0, 0, 0>>, <<0, 0, 0, 0>>, <<0, 0, 0, 0>>, <<0, 0, 0, 0>>, <<0, 51, 173, 73>>, <<0, 51, 173, 153>>, <<0, 51, 173, 62>>, <<0, 0, 0, 0>>, <<0, 0, 0, 0>>, <<0, 51, 173, 65>>, <<0, 51, 173, 153>>, <<0, 51, 173, 72>>, <<0, 0, 0, 0>>, <<0, 0, 0, 0>>, <<0, 0, 0, 0>>, <<0, 0, 0, 0>>, <<0, 0, 0, 0>>, <<0, 0, 0, 0>>, <<0, 0, 0, 0>>, <<0, 51, 173, 161>>, <<0, 51, 173, 163>>, <<0, 0, 0, 0>>, <<0, 0, 0, 0>>, <<0, 0, 0, 0>>>>,
  <<<<0, 0, 0, 0>>, <<0, 0, 0, 0>>, <<0, 0, 0, 0>>, <<0, 0, 0, 0>>, <<0, 0, 0, 0>>, <<0, 0, 0, 0>>, <<0, 0, 0, 0>>, <<0, 51, 173, 51>>, <<0, 51, 173, 152>>, <<0, 51, 173, 31>>, <<0, 0, 0, 0>>, <<0, 51, 173, 91>>, <<0, 51, 173, 255>>, <<0, 51, 173, 255>>, <<0, 51, 173, 255>>, <<0, 51, 173, 70>>, <<0, 51, 173, 80>>, <<0, 51, 173, 255>>, <<0, 51, 173, 255>>, <<0, 51, 173, 255>>, <<0, 51, 173, 83>>, <<0, 0, 0, 0>>, <<0, 51, 173, 49>>, <<0, 51, 173, 153>>, <<0, 51, 173, 53>>, <<0, 0, 0, 0>>, <<0, 0, 0, 0>>, <<0, 0, 0, 0>>, <<0, 0, 0, 0>>, <<0, 0, 0, 0>>, <<0, 0, 0, 0>>, <<0, 0, 0, 0>>>>,
  <<<<0, 0, 0, 0>>, <<0, 0, 0, 0>>, <<0, 0, 0, 0>>, <<0, 0, 0, 0>>, <<0, 0, 0, 0>>, <<0, 0, 0, 0>>, <<0, 0, 0, 0>>, <<0, 51, 173, 194>>, <<0, 51, 173, 255>>, <<0, 51, 173, 178>>, <<0, 0, 0, 0>>, <<0, 51, 173, 165>>, <<0, 51, 173, 255>>, <<0, 51, 173, 255>>, <<0, 51, 173, 255>>, <<0, 51, 173, 153>>, <<0, 51, 173, 153>>, <<0, 51, 173, 255>>, <<0, 51, 173, 255>>, <<0, 51, 173, 255>>, <<0, 51, 173, 153>>, <<0, 0, 0, 0>>, <<0, 51, 173, 188>>, <<0, 51, 173, 255>>, <<0, 51, 173, 194>>, <<0, 0, 0, 0>>, <<0, 0, 0, 0>>, <<0, 0, 0, 0>>, <<0, 0, 0, 0>>, <<0, 0, 0, 0>>, <<0, 0, 0, 0>>, <<0, 0, 0, 0>>>>,
  <<<<0, 0, 0, 0>>, <<0, 0, 0, 0>>, <<0, 0, 0, 0>>, <<0, 0, 0, 0>>, <<0, 0, 0, 0>>, <<0, 0, 0, 0>>, <<0, 0, 0, 0>>, <<0, 51, 173, 106>>, <<0, 51, 173, 235>>, <<0, 51, 173, 92>>, <<0, 0, 0, 0>>, <<0, 51, 173, 120>>, <<0, 51, 173, 255>>, <<0, 51, 173, 255>>, <<0, 51, 173, 255>>, <<0, 51, 173, 102>>, <<0, 51, 173, 110>>, <<0, 51, 173, 255>>, <<0, 51, 173, 255>>, <<0, 51, 173, 255>>, <<0, 51, 173, 112>>, <<0, 0, 0, 0>>, <<0, 51, 173, 92>>, <<0, 51, 173, 207>>, <<0, 51, 173, 96>>, <<0, 0, 0, 0>>, <<0, 0, 0, 0>>, <<0, 0, 0, 0>>, <<0, 0, 0, 0>>, <<0, 0, 0, 0>>, <<0, 0, 0, 0>>, <<0, 0, 0, 0>>>>,
  <<<<0, 0, 0, 0>>, <<0, 0, 0, 0>>, <<0, 0, 0, 0>>, <<0, 0, 0, 0>>, <<0, 0, 0, 0>>, <<0, 0, 0, 0>>, <<0, 0, 0, 0>>, <<0, 0, 0, 0>>, <<0, 0, 0, 0>>, <<0, 0, 0, 0>>, <<0, 51, 173, 27>>, <<0, 51, 173, 24>>, <<0, 51, 173, 124>>, <<0, 51, 173, 204>>, <<0, 51, 173, 113>>, <<0, 0, 0, 0>>, <<0, 0, 0, 0>>, <<0, 51, 173, 112>>, <<0, 51, 173, 198>>, <<0, 51, 173, 121>>, <<0, 51, 173, 22>>, <<0, 51, 173, 31>>, <<0, 0, 0, 0>>, <<0, 0, 0, 0>>, <<0, 0, 0, 0>>, <<0, 0, 0, 0>>, <<0, 0, 0, 0>>, <<0, 0, 0, 0>>, <<0, 0, 0, 0>>, <<0, 0, 0, 0>>, <<0, 0, 0, 0>>, <<0, 0, 0, 0>>>>,
  <<<<0, 0, 0, 0>>, <<0, 0, 0, 0>>, <<0, 0, 0, 0>>, <<0, 0, 0, 0>>, <<0, 0, 0, 0>>, <<0, 0, 0, 0>>, <<0, 0, 0, 0>>, <<0, 0, 0, 0>>, <<0, 0, 0, 0>>, <<0, 51, 173, 144>>, <<0, 51, 173, 255>>, <<0, 51, 173, 255>>, <<0, 51, 173, 102>>, <<0, 0, 0, 0>>, <<0, 0, 0, 0>>, <<0, 0, 0, 0>>, <<0, 0, 0, 0>>, <<0, 0, 0, 0>>, <<0, 0, 0, 0>>, <<0, 51, 173, 103>>, <<0, 51, 173, 255>>, <<0, 51, 173, 255>>, <<0, 51, 173, 152>>, <<0, 0, 0, 0>>, <<0, 0, 0, 0>>, <<0, 0, 0, 0>>, <<0, 0, 0, 0>>, <<0, 51, 174, 5>>, <<0, 0, 0, 0>>, <<0, 0, 0, 0>>, <<0, 0, 0, 0>>, <<0, 0, 0, 0>>>>,
  <<<<0, 51, 173, 142>>, <<0, 51, 173, 49>>, <<0, 0, 0, 0>>, <<0, 51, 173, 51>>, <<0, 51, 173, 245>>, <<0, 51, 173, 149>>, <<0, 0, 0, 0>>, <<0, 0, 0, 0>>, <<0, 51, 173, 39>>, <<0, 51, 173, 255>>, <<0, 51, 173, 255>>, <<0, 51, 173, 255>>, <<0, 51, 173, 245>>, <<0, 0, 0, 0>>, <<0, 0, 0, 0>>, <<0, 0, 0, 0>>, <<0, 0, 0, 0>>, <<0, 0, 0, 0>>, <<0, 0, 0, 0>>, <<0, 51, 173, 246>>, <<0, 51, 173, 255>>, <<0, 51, 173, 255>>, <<0, 51, 173, 255>>, <<0, 51, 173, 41>>, <<0, 0, 0, 0>>, <<0, 0, 0, 0>>, <<0, 51, 173, 163>>, <<0, 51, 173, 253>>, <<0, 51, 173, 61>>, <<0, 0, 0, 0>>, <<0, 51, 173, 51>>, <<0, 51, 173, 165>>>>,
  <<<<0, 51, 173, 166>>, <<0, 51, 173, 51>>, <<0, 0, 0, 0>>, <<0, 51, 173, 61>>, <<0, 51, 173, 255>>, <<0, 51, 173, 163>>, <<0, 0, 0, 0>>, <<0, 0, 0, 0>>, <<0, 51, 173, 41>>, <<0, 51, 173, 255>>, <<0, 51, 173, 255>>, <<0, 51, 173, 255>>, <<0, 51, 173, 247>>, <<0, 0, 0, 0>>, <<0, 0, 0, 0>>, <<0, 0, 0, 0>>, <<0, 0, 0, 0>>, <<0, 0, 0, 0>>, <<0, 0, 0, 0>>, <<0, 51, 173, 245>>, <<0, 51, 173, 255>>, <<0, 51, 173, 255>>, <<0, 51, 173, 255>>, <<0, 51, 173, 38>>, <<0, 0, 0, 0>>, <<0, 0, 0, 0>>, <<0, 51, 173, 152>>, <<0, 51, 173, 245>>, <<0, 51, 173, 51>>, <<0, 0, 0, 0>>, <<0, 51, 173, 47>>, <<0, 51, 173, 142>>>>,
  <<<<0, 0, 0, 0>>, <<0, 0, 0, 0>>, <<0, 0, 0, 0>>, <<0, 0, 0, 0>>, <<0, 51, 173, 9>>, <<0, 0, 0, 0>>, <<0, 0, 0, 0>>, <<0, 0, 0, 0>>, <<0, 0, 0, 0>>, <<0, 51, 173, 151>>, <<0, 51, 173, 255>>, <<0, 51, 173, 255>>, <<0, 51, 173, 103>>, <<0, 0, 0, 0>>, <<0, 0, 0, 0>>, <<0, 0, 0, 0>>, <<0, 0, 0, 0>>, <<0, 0, 0, 0>>, <<0, 0, 0, 0>>, <<0, 51, 173, 102>>, <<0, 51, 173, 253>>, <<0, 51, 173, 255>>, <<0, 51, 173, 142>>, <<0, 0, 0, 0>>, <<0, 0, 0, 0>>, <<0, 0, 0, 0>>, <<0, 0, 0, 0>>, <<0, 0, 0, 0>>, <<0, 0, 0, 0>>, <<0, 0, 0, 0>>, <<0, 0, 0, 0>>, <<0, 0, 0, 0>>>>,
  <<<<0, 0, 0, 0>>, <<0, 0, 0, 0>>, <<0, 0, 0, 0>>, <<0, 0, 0, 0>>, <<0, 0, 0, 0>>, <<0, 0, 0, 0>>, <<0, 0, 0, 0>>, <<0, 0, 0, 0>>, <<0, 0, 0, 0>>, <<0, 0, 0, 0>>, <<0, 51, 173, 31>>, <<0, 51, 173, 22>>, <<0, 51, 173, 122>>, <<0, 51, 173, 203>>, <<0, 51, 173, 114>>, <<0, 0, 0, 0>>, <<0, 0, 0, 0>>, <<0, 51, 173, 113>>, <<0, 51, 173, 204>>, <<0, 51, 173, 124>>, <<0, 51, 173, 23>>, <<0, 51, 173, 23>>, <<0, 0, 0, 0>>, <<0, 0, 0, 0>>, <<0, 0, 0, 0>>, <<0, 0, 0, 0>>, <<0, 0, 0, 0>>, <<0, 0, 0, 0>>, <<0, 0, 0, 0>>, <<0, 0, 0, 0>>, <<0, 0, 0, 0>>, <<0, 0, 0, 0>>>>,
  <<<<0, 0, 0, 0>>, <<0, 0, 0, 0>>, <<0, 0, 0, 0>>, <<0, 0, 0, 0>>, <<0, 0, 0, 0>>, <<0, 0, 0, 0>>, <<0, 0, 0, 0>>, <<0, 51, 173, 96>>, <<0, 51, 173, 208>>, <<0, 51, 173, 92>>, <<0, 0, 0, 0>>, <<0, 51, 173, 114>>, <<0, 51, 173, 255>>, <<0, 51, 173, 255>>, <<0, 51, 173, 255>>, <<0, 51, 173, 110>>, <<0, 51, 173, 103>>, <<0, 51, 173, 255>>, <<0, 51, 173, 255>>, <<0, 51, 173, 255>>, <<0, 51, 173, 120>>, <<0, 0, 0, 0>>, <<0, 51, 173, 92>>, <<0, 51, 173, 235>>, <<0, 51, 173, 106>>, <<0, 0, 0, 0>>, <<0, 0, 0, 0>>, <<0, 0, 0, 0>>, <<0, 0, 0, 0>>, <<0, 0, 0, 0>>, <<0, 0, 0, 0>>, <<0, 0, 0, 0>>>>,
  <<<<0, 0, 0, 0>>, <<0, 0, 0, 0>>, <<0, 0, 0, 0>>, <<0, 0, 0, 0>>, <<0, 0, 0, 0>>, <<0, 0, 0, 0>>, <<0, 0, 0, 0>>, <<0, 51, 173, 194>>, <<0, 51, 173, 255>>, <<0, 51, 173, 187>>, <<0, 0, 0, 0>>, <<0, 51, 173, 153>>, <<0, 51, 173, 255>>, <<0, 51, 173, 255>>, <<0, 51, 173, 255>>, <<0, 51, 173, 153>>, <<0, 51, 173, 153>>, <<0, 51, 173, 255>>, <<0, 51, 173, 255>>, <<0, 51, 173, 255>>, <<0, 51, 173, 166>>, <<0, 0, 0, 0>>, <<0, 51, 173, 178>>, <<0, 51, 173, 255>>, <<0, 51, 173, 194>>, <<0, 0, 0, 0>>, <<0, 0, 0, 0>>, <<0, 0, 0, 0>>, <<0, 0, 0, 0>>, <<0, 0, 0, 0>>, <<0, 0, 0, 0>>, <<0, 0, 0, 0>>>>,
  <<<<0, 0, 0, 0>>, <<0, 0, 0, 0>>, <<0, 0, 0, 0>>, <<0, 0, 0, 0>>, <<0, 0, 0, 0>>, <<0, 0, 0, 0>>, <<0, 0, 0, 0>>, <<0, 51, 173, 54>>, <<0, 51, 173, 153>>, <<0, 51, 173, 49>>, <<0, 0, 0, 0>>, <<0, 51, 173, 85>>, <<0, 51, 173, 255>>, <<0, 51, 173, 255>>, <<0, 51, 173, 255>>, <<0, 51, 173, 80>>, <<0, 51, 173, 67>>, <<0, 51, 173, 255>>, <<0, 51, 173, 255>>, <<0, 51, 173, 255>>, <<0, 51, 173, 91>>, <<0, 0, 0, 0>>, <<0, 51, 173, 31>>, <<0, 51, 173, 152>>, <<0, 51, 173, 51>>, <<0, 0, 0, 0>>, <<0, 0, 0, 0>>, <<0, 0, 0, 0>>, <<0, 0, 0, 0>>, <<0, 0, 0, 0>>, <<0, 0, 0, 0>>, <<0, 0, 0, 0>>>>,
  <<<<0, 0, 0, 0>>, <<0, 0, 0, 0>>, <<0, 0, 0, 0>>, <<0, 51, 173, 166>>, <<0, 51, 173, 161>>, <<0, 0, 0, 0>>, <<0, 0, 0, 0>>, <<0, 0, 0, 0>>, <<0, 0, 0, 0>>, <<0, 0, 0, 0>>, <<0, 0, 0, 0>>, <<0, 0, 0, 0>>, <<0, 51, 173, 72>>, <<0, 51, 173, 153>>, <<0, 51, 173, 67>>, <<0, 0, 0, 0>>, <<0, 0, 0, 0>>, <<0, 51, 173, 61>>, <<0, 51, 173, 149>>, <<0, 51, 173, 71>>, <<0, 0, 0, 0>>, <<0, 0, 0, 0>>, <<0, 0, 0, 0>>, <<0, 0, 0, 0>>, <<0, 0, 0, 0>>, <<0, 0, 0, 0>>, <<0, 0, 0, 0>>, <<0, 51, 173, 164>>, <<0, 51, 173, 193>>, <<0, 0, 0, 0>>, <<0, 0, 0, 0>>, <<0, 0, 0, 0>>>>,
  <<<<0, 0, 0, 0>>, <<0, 0, 0, 0>>, <<0, 0, 0, 0>>, <<0, 51, 173, 155>>, <<0, 51, 173, 143>>, <<0, 0, 0, 0>>, <<0, 0, 0, 0>>, <<0, 0, 0, 0>>, <<0, 0, 0, 0>>, <<0, 0, 0, 0>>, <<0, 0, 0, 0>>, <<0, 0, 0, 0>>, <<0, 0, 0, 0>>, <<0, 0, 0, 0>>, <<0, 0, 0, 0>>, <<0, 51, 173, 114>>, <<0, 51, 173, 108>>, <<0, 0, 0, 0>>, <<0, 0, 0, 0>>, <<0, 0, 0, 0>>, <<0, 0, 0, 0>>, <<0, 0, 0, 0>>, <<0, 0, 0, 0>>, <<0, 0, 0, 0>>, <<0, 0, 0, 0>>, <<0, 0, 0, 0>>, <<0, 0, 0, 0>>, <<0, 51, 173, 133>>, <<0, 51, 173, 154>>, <<0, 0, 0, 0>>, <<0, 0, 0, 0>>, <<0, 0, 0, 0>>>>,
  <<<<0, 0, 0, 0>>, <<0, 0, 0, 0>>, <<0, 0, 0, 0>>, <<0, 0, 0, 0>>, <<0, 0, 0, 0>>, <<0, 0, 0, 0>>, <<0, 0, 0, 0>>, <<0, 0, 0, 0>>, <<0, 0, 0, 0>>, <<0, 51, 173, 10>>, <<0, 51, 173, 52>>, <<0, 0, 0, 0>>, <<0, 0, 0, 0>>, <<0, 0, 0, 0>>, <<0, 51, 173, 82>>, <<0, 51, 173, 255>>, <<0, 51, 173, 255>>, <<0, 51, 173, 41>>, <<0, 0, 0, 0>>, <<0, 0, 0, 0>>, <<0, 0, 0, 0>>, <<0, 51, 173, 68>>, <<0, 51, 173, 19>>, <<0, 0, 0, 0>>, <<0, 0, 0, 0>>, <<0, 0, 0, 0>>, <<0, 0, 0, 0>>, <<0, 0, 0, 0>>, <<0, 0, 0, 0>>, <<0, 0, 0, 0>>, <<0, 0, 0, 0>>, <<0, 0, 0, 0>>>>,
  <<<<0, 0, 0, 0>>, <<0, 0, 0, 0>>, <<0, 0, 0, 0>>, <<0, 0, 0, 0>>, <<0, 0, 0, 0>>, <<0, 0, 0, 0>>, <<0, 0, 0, 0>>, <<0, 0, 0, 0>>, <<0, 0, 0, 0>>, <<0, 51, 173, 153>>, <<0, 51, 173, 255>>, <<0, 51, 173, 92>>, <<0, 0, 0, 0>>, <<0, 0, 0, 0>>, <<0, 51, 173, 20>>, <<0, 51, 173, 215>>, <<0, 51, 173, 208>>, <<0, 51, 173, 10>>, <<0, 0, 0, 0>>, <<0, 0, 0, 0>>, <<0, 51, 173, 88>>, <<0, 51, 173, 255>>, <<0, 51, 173, 184>>, <<0, 0, 0, 0>>, <<0, 0, 0, 0>>, <<0, 0, 0, 0>>, <<0, 0, 0, 0>>, <<0, 0, 0, 0>>, <<0, 0, 0, 0>>, <<0, 0, 0, 0>>, <<0, 0, 0, 0>>, <<0, 0, 0, 0>>>>,
  <<<<0, 0, 0, 0>>, <<0, 0, 0, 0>>, <<0, 0, 0, 0>>, <<0, 0, 0, 0>>, <<0, 0, 0, 0>>, <<0, 0, 0, 0>>, <<0, 0, 0, 0>>, <<0, 0, 0, 0>>, <<0, 0, 0, 0>>, <<0, 51, 173, 92>>, <<0, 51, 173, 204>>, <<0, 51, 173, 51>>, <<0, 0, 0, 0>>, <<0, 0, 0, 0>>, <<0, 0, 0, 0>>, <<0, 0, 0, 0>>, <<0, 0, 0, 0>>, <<0, 0, 0, 0>>, <<0, 0, 0, 0>>, <<0, 0, 0, 0>>, <<0, 51, 173, 40>>, <<0, 51, 173, 194>>, <<0, 51, 173, 96>>, <<0, 0, 0, 0>>, <<0, 0, 0, 0>>, <<0, 0, 0, 0>>, <<0, 0, 0, 0>>, <<0, 0, 0, 0>>, <<0, 0, 0, 0>>, <<0, 0, 0, 0>>, <<0, 0, 0, 0>>, <<0, 0, 0, 0>>>>,
  <<<<0, 0, 0, 0>>, <<0, 0, 0, 0>>, <<0, 0, 0, 0>>, <<0, 0, 0, 0>>, <<0, 0, 0, 0>>, <<0, 0, 0, 0>>, <<0, 0, 0, 0>>, <<0, 0, 0, 0>>, <<0, 0, 0, 0>>, <<0, 0, 0, 0>>, <<0, 0, 0, 0>>, <<0, 0, 0, 0>>, <<0, 0, 0, 0>>, <<0, 0, 0, 0>>, <<0, 0, 0, 0>>, <<0, 0, 0, 0>>, <<0, 0, 0, 0>>, <<0, 0, 0, 0>>, <<0, 0, 0, 0>>, <<0, 0, 0, 0>>, <<0, 0, 0, 0>>, <<0, 0, 0, 0>>, <<0, 0, 0, 0>>, <<0, 0, 0, 0>>, <<0, 0, 0, 0>>, <<0, 0, 0, 0>>, <<0, 0, 0, 0>>, <<0, 0, 0, 0>>, <<0, 0, 0, 0>>, <<0, 0, 0, 0>>, <<0, 0, 0, 0>>, <<0, 0, 0, 0>>>>,
  <<<<0, 0, 0, 0>>, <<0, 0, 0, 0>>, <<0, 0, 0, 0>>, <<0, 0, 0, 0>>, <<0, 0, 0, 0>>, <<0, 0, 0, 0>>, <<0, 0, 0, 0>>, <<0, 51, 173, 10>>, <<0, 51, 173, 92>>, <<0, 0, 0, 0>>, <<0, 0, 0, 0>>, <<0, 0, 0, 0>>, <<0, 0, 0, 0>>, <<0, 0, 0, 0>>, <<0, 0, 0, 0>>, <<0, 0, 0, 0>>, <<0, 0, 0, 0>>, <<0, 0, 0, 0>>, <<0, 0, 0, 0>>, <<0, 0, 0, 0>>, <<0, 0, 0, 0>>, <<0, 0, 0, 0>>, <<0, 0, 0, 0>>, <<0, 51, 173, 92>>, <<0, 51, 173, 20>>, <<0, 0, 0, 0>>, <<0, 0, 0, 0>>, <<0, 0, 0, 0>>, <<0, 0, 0, 0>>, <<0, 0, 0, 0>>, <<0, 0, 0, 0>>, <<0, 0, 0, 0>>>>,
  <<<<0, 0, 0, 0>>, <<0, 0, 0, 0>>, <<0, 0, 0, 0>>, <<0, 0, 0, 0>>, <<0, 0, 0, 0>>, <<0, 0, 0, 0>>, <<0, 0, 0, 0>>, <<0, 51, 173, 58>>, <<0, 51, 173, 231>>, <<0, 0, 0, 0>>, <<0, 0, 0, 0>>, <<0, 0, 0, 0>>, <<0, 0, 0, 0>>, <<0, 0, 0, 0>>, <<0, 0, 0, 0>>, <<0, 51, 173, 202>>, <<0, 51, 173, 173>>, <<0, 0, 0, 0>>, <<0, 0, 0, 0>>, <<0, 0, 0, 0>>, <<0, 0, 0, 0>>, <<0, 0, 0, 0>>, <<0, 0, 0, 0>>, <<0, 51, 173, 219>>, <<0, 51, 173, 71>>, <<0, 0, 0, 0>>, <<0, 0, 0, 0>>, <<0, 0, 0, 0>>, <<0, 0, 0, 0>>, <<0, 0, 0, 0>>, <<0, 0, 0, 0>>, <<0, 0, 0, 0>>>>,
  <<<<0, 0, 0, 0>>, <<0, 0, 0, 0>>, <<0, 0, 0, 0>>, <<0, 0, 0, 0>>, <<0, 0, 0, 0>>, <<0, 0, 0, 0>>, <<0, 0, 0, 0>>, <<0, 0, 0, 0>>, <<0, 0, 0, 0>>, <<0, 0, 0, 0>>, <<0, 0, 0, 0>>, <<0, 0, 0, 0>>, <<0, 0, 0, 0>>, <<0, 0, 0, 0>>, <<0, 0, 0, 0>>, <<0, 51, 173, 151>>, <<0, 51, 173, 130>>, <<0, 0, 0, 0>>, <<0, 0, 0, 0>>, <<0, 0, 0, 0>>, <<0, 0, 0, 0>>, <<0, 0, 0, 0>>, <<0, 0, 0, 0>>, <<0, 0, 0, 0>>, <<0, 0, 0, 0>>, <<0, 0, 0, 0>>, <<0, 0, 0, 0>>, <<0, 0, 0, 0>>, <<0, 0, 0, 0>>, <<0, 0, 0, 0>>, <<0, 0, 0, 0>>, <<0, 0, 0, 0>>>>,
  <<<<0, 0, 0, 0>>, <<0, 0, 0, 0>>, <<0, 0, 0, 0>>, <<0, 0, 0, 0>>, <<0, 0, 0, 0>>, <<0, 0, 0, 0>>, <<0, 0, 0, 0>>, <<0, 0, 0, 0>>, <<0, 0, 0, 0>>, <<0, 0, 0, 0>>, <<0, 0, 0, 0>>, <<0, 0, 0, 0>>, <<0, 0, 0, 0>>, <<0, 0, 0, 0>>, <<0, 0, 0, 0>>, <<0, 0, 0, 0>>, <<0, 0, 0, 0>>, <<0, 0, 0, 0>>, <<0, 0, 0, 0>>, <<0, 0, 0, 0>>, <<0, 0, 0, 0>>, <<0, 0, 0, 0>>, <<0, 0, 0, 0>>, <<0, 0, 0, 0>>, <<0, 0, 0, 0>>, <<0, 0, 0, 0>>, <<0, 0, 0, 0>>, <<0, 0, 0, 0>>, <<0, 0, 0, 0>>, <<0, 0, 0, 0>>, <<0, 0, 0, 0>>, <<0, 0, 0, 0>>>>
  >>

\* the side of the builtin assets and the size they are centred with
AssetSide == 32
BuiltinCenter == 32

\* match watermark { "empty" => "", "bitcoin" => .., "ethereum" => ..,
\* "cardano" => .., _ => "" }, base64-decoded and read as a PNG: the empty
\* string decodes to no bytes, which is no PNG
BuiltinAsset(name) ==
  IF name = BitcoinName THEN Some(Raster(AssetSide, AssetSide, BitcoinAsset))
  ELSE IF name = EthereumName THEN Some(Raster(AssetSide, AssetSide, EthereumAsset))
  ELSE IF name = CardanoName THEN Some(Raster(AssetSide, AssetSide, CardanoAsset))
  ELSE None

\* DynamicImage::resize(w, h, Nearest): the largest size within w x h that
\* keeps the aspect ratio, sampled at the nearest source pixel
ResizeNearest(image, w, h) ==
  LET byWidth == w * image.h <= h * image.w
      nw == IF byWidth THEN w
            ELSE (2 * image.w * h + image.h) \div (2 * image.h)
      nh == IF byWidth THEN (2 * image.h * w + image.w) \div (2 * image.w)
            ELSE h
      W == IF nw < 1 THEN 1 ELSE nw
      H == IF nh < 1 THEN 1 ELSE nh
      Px(x, y) == GetPixel(image, ((2 * x + 1) * image.w) \div (2 * W),
                           ((2 * y + 1) * image.h) \div (2 * H))
  IN MakeRaster(W, H, Px)

load_watermark(watermark, alpha, width, height) ==
  IF IsBase64(watermark)
  THEN IF IsSome(alpha) /\ IsSome(width) /\ IsSome(height)
       THEN LET loaded == LoadFromMemory(watermark)
            IN IF IsSome(loaded)
               THEN Some(ResizeNearest(loaded.val, width.val, height.val))
               ELSE None
       ELSE None
  ELSE BuiltinAsset(watermark.chars)

MapPixels(image, F(_)) ==
  Raster(image.w, image.h,
         [y1 \in 1..image.h |-> [x1 \in 1..image.w |-> F(image.px[y1][x1])]])

HasTransparent(image) ==
  \E y1 \in 1..image.h : \E x1 \in 1..image.w : image.px[y1][x1][4] = 0

\* every pixel forced to the requested alpha
adjust_alpha_force_all(image, custom_opacity) ==
  LET All(p) == [p EXCEPT ![4] = custom_opacity]
  IN MapPixels(image, All)

\* adjust_alpha: the first loop rewrites alpha 0, the second looks for a pixel
\* that still has alpha 0, the third rewrites every pixel when there is none
adjust_alpha(image, custom_opacity) ==
  LET Zeroes(p) == IF p[4] = 0 THEN [p EXCEPT ![4] = custom_opacity] ELSE p
      All(p) == [p EXCEPT ![4] = custom_opacity]
      first == MapPixels(image, Zeroes)
      found_fully_transparent == HasTransparent(first)
  IN IF ~found_fully_transparent THEN MapPixels(first, All) ELSE first

\* Rgba::blend: nothing for a transparent top pixel, the top pixel for an
\* opaque one, otherwise the source-over mix (in integers)
Blend(bottom, top) ==
  IF top[4] = 0 THEN bottom
  ELSE IF top[4] = 255 THEN top
  ELSE LET af == 255 * (bottom[4] + top[4]) - bottom[4] * top[4]
           Ch(i) == (top[i] * top[4] * 255 + bottom[i] * bottom[4] * (255 - top[4]))
                    \div af
       IN IF af = 0 THEN bottom ELSE <<Ch(1), Ch(2), Ch(3), af \div 255>>

\* imageops::overlay(bottom, top, x, y), x and y being u32: the part of top
\* that falls inside bottom is blended onto it; an offset of 2^16 or more is
\* beyond every raster of the model
OverlayRange(at, top_side, bottom_side) ==
  IF at.hi > 0 THEN 0
  ELSE IF at.lo + top_side > bottom_side
  THEN (IF bottom_side > at.lo THEN bottom_side - at.lo ELSE 0)
  ELSE top_side

Overlay(bottom, top, x, y) ==
  LET range_w == OverlayRange(x, top.w, bottom.w)
      range_h == OverlayRange(y, top.h, bottom.h)
      Px(bx, by) ==
        IF range_w > 0 /\ range_h > 0
           /\ bx >= x.lo /\ bx < x.lo + range_w /\ by >= y.lo /\ by < y.lo + range_h
        THEN Blend(GetPixel(bottom, bx, by), GetPixel(top, bx - x.lo, by - y.lo))
        ELSE GetPixel(bottom, bx, by)
  IN MakeRaster(bottom.w, bottom.h, Px)

-----------------------------------------------------------------------------
(* create_img and decode_image_and_extract_text. *)

\* img is the canvas after the first pass, shifted after the second pass
\* (with its offset), canvas after the style transform
ImgFrame(ciphertext, style, watermark, bias, awh, alpha, center_w, center_h,
         loaded, img, offset, shifted, canvas, result) ==
  [called |-> TRUE, ciphertext |-> ciphertext, style |-> style,
   watermark |-> watermark, bias |-> bias, awh |-> awh, alpha |-> alpha,
   center_w |-> center_w, center_h |-> center_h, loaded |-> loaded,
   img |-> img, row_count |-> RowCount(img), offset |-> offset,
   shifted |-> shifted, canvas |-> canvas, result |-> result]

NoOptions == <<None, None, None>>

NoImg ==
  [called |-> FALSE, ciphertext |-> NoBytes, style |-> "h", watermark |-> Text(NoBytes),
   bias |-> NoOptions, awh |-> NoOptions, alpha |-> None, center_w |-> None,
   center_h |-> None, loaded |-> FALSE, img |-> NoRaster, row_count |-> 0,
   offset |-> 1,
   shifted |-> NoRaster, canvas |-> NoRaster, result |-> None]

\* (width / 2) - (center / 2) in u32: with overflow checks (a debug build) a
\* negative difference panics, without them (a release build) it wraps
CenterOffset(side, center, overflow_checks) ==
  IF (side \div 2) < (center \div 2) /\ overflow_checks THEN Panic
  ELSE Some(WrappingSub(side \div 2, center \div 2))

\* create_img(ciphertext, style, watermark, r, g, b, a, w, h); bias is
\* <<r, g, b>> and awh is <<a, w, h>>, each an Option
create_img(ciphertext, style, watermark, bias, awh, overflow_checks) ==
  LET r == UnwrapOr(bias[1], DefaultR)
      g == UnwrapOr(bias[2], DefaultG)
      b == UnwrapOr(bias[3], DefaultB)
      width == Len(ciphertext)
      height == width
      img == FillCanvas(ciphertext, r, g, b)
      shifted == ShiftRows(img)
      new_img == StyleTransform(shifted, style)
      custom == IsBase64(watermark)
      given == IsSome(awh[1]) /\ IsSome(awh[2]) /\ IsSome(awh[3])
      alpha == IF custom THEN awh[1] ELSE Some(0)
      center_w == IF custom THEN awh[2] ELSE Some(BuiltinCenter)
      center_h == IF custom THEN awh[3] ELSE Some(BuiltinCenter)
      Frame(loaded, result) ==
        ImgFrame(ciphertext, style, watermark, bias, awh, alpha, center_w, center_h,
                 loaded, img, Offset(img), shifted, new_img, result)
  IN IF height > 0 /\ Offset(img) = 0
     THEN \* y % offset with offset = 0
          ImgFrame(ciphertext, style, watermark, bias, awh, None, None, None,
                   FALSE, img, 0, NoRaster, NoRaster, Panic)
     ELSE IF custom /\ ~given
     THEN ImgFrame(ciphertext, style, watermark, bias, awh, None, None, None,
                   FALSE, img, Offset(img), shifted, new_img, None)
     ELSE
       LET watermark_img == load_watermark(watermark, alpha, center_w, center_h)
       IN IF ~IsSome(watermark_img)
          THEN Frame(FALSE, Some(RasterString(new_img)))
          ELSE
            LET nw == CenterOffset(width, center_w.val, overflow_checks)
                nh == CenterOffset(height, center_h.val, overflow_checks)
            IN IF ~IsSome(nw) \/ ~IsSome(nh)
               THEN Frame(TRUE, Panic)
               ELSE Frame(TRUE,
                          Some(RasterString(
                            Overlay(new_img,
                                    adjust_alpha(watermark_img.val, UnwrapOr(alpha, 0)),
                                    nw.val, nh.val))))

DimgFrame(encoded_image, result) ==
  [called |-> TRUE, encoded_image |-> encoded_image, result |-> result]

NoDimg == [called |-> FALSE, encoded_image |-> Text(NoBytes), result |-> None]

\* the characters of row 0, left to right, of the pixels the table knows
RECURSIVE ExtractRow(_, _)
ExtractRow(image, x) ==
  IF x >= image.w THEN <<>>
  ELSE LET p == GetPixel(image, x, 0)
           c == numbers_to_letter(p[1], p[2], p[3])
       IN (IF IsSome(c) THEN <<c.val>> ELSE <<>>) \o ExtractRow(image, x + 1)

decode_image_and_extract_text(encoded_image) ==
  IF ~IsBase64(encoded_image) THEN DimgFrame(encoded_image, None)
  ELSE LET decoded == LoadFromMemory(encoded_image)
       IN IF ~IsSome(decoded)
          THEN \* .decode().unwrap()
               DimgFrame(encoded_image, Panic)
          ELSE LET extracted_text == ExtractRow(decoded.val, 0)
               IN IF extracted_text = <<>>
                  THEN \* String::remove(0) on an empty string
                       DimgFrame(encoded_image, Panic)
                  ELSE DimgFrame(encoded_image,
                                 Some(Tail(extracted_text) \o <<Head(extracted_text)>>))

AdjFrame(image, custom_opacity, result) ==
  [called |-> TRUE, image |-> image, custom_opacity |-> custom_opacity,
   result |-> result]

NoAdj == [called |-> FALSE, image |-> NoRaster, custom_opacity |-> 0, result |-> NoRaster]

-----------------------------------------------------------------------------
(* The arguments the calls are made with. *)

\* an ASCII plaintext of n bytes
AsciiText(n) == [i \in 1..n |-> 97 + ((7 * i) % 26)]

\* a 12-byte plaintext whose bytes at..at+1 (1-based) are a two-byte character
Utf8Text(at) ==
  [i \in 1..12 |-> IF i = at THEN 195 ELSE IF i = at + 1 THEN 169 ELSE 97 + i]

\* an 18-byte plaintext whose two-byte character lies across the end of the
\* first cipher block (bytes 16 and 17)
StraddleText ==
  [i \in 1..18 |-> IF i = 16 THEN 195 ELSE IF i = 17 THEN 169 ELSE 97 + i]

Plaintexts == {AsciiText(n) : n \in 0..MaxPlainLen} \cup {Utf8Text(9), Utf8Text(10)}

KeyOfLen(n) == [i \in 1..n |-> 48 + i]

KeyLens == {1, 16} \cup (17..MaxKeyLen)

Keys == {None} \cup {Some(KeyOfLen(n)) : n \in KeyLens}

Strengths == {None, Some(DefaultStrength), Some(AdvancedStrength)}

\* what the random source may give
NumRandom == 2
RandomBytes == {[i \in 1..IvSeedLen |-> (37 * s * i) % 256] : s \in 1..NumRandom}

\* a payload no encrypts call produced, whose cipher block is arbitrary and
\* whose tag is the tag of that block under the default key
ForgedBlock == [i \in 1..AesBlock |-> 7 * i]
ForgedPayload ==
  Base64Encode([i \in 1..IvEnd |-> i]
                 \o calculate_hmac(ForgedBlock, DecryptsPaddedKey(DefaultKey))
                 \o ForgedBlock)

\* strings given to decrypts that no encrypts call produced: not base64,
\* base64 of fewer than 16, of fewer than 48 and of exactly 48 bytes, and the
\* forged payload
RawEncoded ==
  {<<89, 111, 117, 114, 32, 100, 97, 116, 97>>,
   <<>>,
   Base64Encode(<<65, 66, 67>>),
   Base64Encode([i \in 1..15 |-> i]),
   Base64Encode([i \in 1..16 |-> i]),
   Base64Encode([i \in 1..47 |-> i]),
   Base64Encode([i \in 1..48 |-> i]),
   ForgedPayload}

\* ciphertexts given to create_img: alphabet characters only, of the lengths
\* 1..MaxShortLen and AssetSide..AssetSide + MaxOver
MaxShortLen == 3
MaxOver == 1
NumPatterns == 1

CipherLens == (1..MaxShortLen) \cup (AssetSide..(AssetSide + MaxOver))

AlphabetText(n, v) == [i \in 1..n |-> AlphabetChar((11 * i + 7 * v) % AlphabetSize)]

\* ciphertexts with characters outside the alphabet ('!', '#'): "a!b", "ab!",
\* "!ab", "a!", "!a", "ab!c#", "!", "!#"
UnmappedTexts ==
  {<<97, 33, 98>>, <<97, 98, 33>>, <<33, 97, 98>>, <<97, 33>>, <<33, 97>>,
   <<97, 98, 33, 99, 35>>, <<33>>, <<33, 35>>}

\* n times the character 'c'
RepeatedText(n) == [i \in 1..n |-> AlphabetChar(2)]

Ciphertexts == {AlphabetText(n, v) : n \in CipherLens, v \in 1..NumPatterns}

\* ciphertexts whose canvas has white rows under MaxBias
DiffusionTexts ==
  {c \in Ciphertexts : Len(c) >= AssetSide}
    \cup {RepeatedText(n) : n \in AssetSide..(AssetSide + MaxOver)}

Styles == {"h", "h2", "v", "v2"}

\* a caller's raster: 2 x 2, one transparent, one opaque, two translucent pixels
CustomRaster ==
  Raster(2, 2, << << <<10, 20, 30, 0>>, <<40, 50, 60, 255>> >>,
                  << <<70, 80, 90, 128>>, <<200, 210, 220, 1>> >> >>)

\* base64 of three bytes that are no image
NotAnImage == Base64Encode(<<65, 66, 67>>)

Watermarks ==
  {Text(EmptyName), Text(BitcoinName), Text(EthereumName), Text(CardanoName),
   Text(CapitalBitcoinName), RasterString(CustomRaster), Text(NotAnImage)}

\* the bias omitted and a caller's bias
Biases == {NoOptions, <<Some(46), Some(115), Some(82)>>}

\* the largest bias, with which the lower rows of the first pass reach white
MaxBias == <<Some(255), Some(255), Some(255)>>

\* a, w, h: all omitted, all given, the width omitted
AlphaWidthHeight ==
  {NoOptions, <<Some(128), Some(2), Some(2)>>, <<Some(128), None, Some(2)>>}

\* the characters given to the table: every code point below 256
Chars == 0..255

\* a 3 x 2 raster whose row 0 has the colours of the table for cs (one per
\* column, <<0, 0, 0>> where cs has 0) and whose row 1 is white
RowRaster(cs) ==
  Raster(3, 2,
         << [x1 \in 1..3 |-> UnwrapOr(get_color(cs[x1]), <<0, 0, 0>>) \o <<255>>],
            [x1 \in 1..3 |-> <<255, 255, 255, 255>>] >>)

\* strings given to decode_image_and_extract_text that no create_img call
\* produced: not base64, empty, base64 of bytes that are no image, and
\* images whose row 0 has three, two, one and no pixel of the table
RawImages ==
  {Text(<<110, 111, 116, 32, 98, 97, 115, 101, 54, 52>>),
   Text(<<>>),
   Text(Base64Encode(<<65, 66, 67>>)),
   RasterString(RowRaster(<<120, 121, 122>>)),
   RasterString(RowRaster(<<120, 0, 122>>)),
   RasterString(RowRaster(<<0, 0, 122>>)),
   RasterString(RowRaster(<<0, 0, 0>>))}

\* rasters given to adjust_alpha: two pixels with every combination of these
\* alpha values
AlphaValues == {0, 1, 128, 255}

AdjustRasters ==
  {Raster(2, 1, << << <<10, 20, 30, a1>>, <<40, 50, 60, a2>> >> >>) :
     a1 \in AlphaValues, a2 \in AlphaValues}

-----------------------------------------------------------------------------
(* Actions: one per call. *)

Init ==
  /\ enc = NoEnc
  /\ dec = NoDec
  /\ cre = NoImg
  /\ dimg = NoDimg
  /\ adj = NoAdj
  /\ tbl = NoTbl

\* A run is one session of calls: a first call, then the calls made on its
\* result.
Idle ==
  /\ ~enc.called /\ ~dec.called /\ ~cre.called /\ ~dimg.called /\ ~adj.called
  /\ ~tbl.called

\* encrypts with every combination of the plaintexts, keys and strengths, and
\* with the straddling plaintext under the default key and strength
Encrypts ==
  /\ Idle
  /\ \/ \E input \in Plaintexts, key \in Keys, strength \in Strengths, rnd \in RandomBytes :
          enc' = encrypts(input, key, strength, rnd)
     \/ \E rnd \in RandomBytes :
          enc' = encrypts(StraddleText, None, None, rnd)
  /\ UNCHANGED <<dec, cre, dimg, adj, tbl>>

\* decrypts of the payload the last encrypts returned, with the same key
Decrypts ==
  /\ ~dec.called
  /\ IsSome(enc.result)
  /\ dec' = decrypts("same", enc.result.val, enc.key)
  /\ UNCHANGED <<enc, cre, dimg, adj, tbl>>

\* the payload with one bit of its Tag or CipherText region flipped
Tampered(payload, i, bit) ==
  Base64Encode(FlipBit(Base64Decode(payload).val, i, bit))

DecryptsTampered ==
  /\ ~dec.called
  /\ IsSome(enc.result)
  /\ \E i \in (IvEnd + 1)..Len(Base64Decode(enc.result.val).val), bit \in 0..7 :
       dec' = decrypts("tampered", Tampered(enc.result.val, i, bit), enc.key)
  /\ UNCHANGED <<enc, cre, dimg, adj, tbl>>

\* 16 bytes that replace the IV of a payload: the IV with one bit flipped
\* (the top bit of its first or last byte, the low bit of its last byte), with
\* the low two bits of its last byte flipped, or with every byte changed
ReplacedIvs(iv) ==
  {FlipBit(iv, 1, 7), FlipBit(iv, AesBlock, 7), FlipBit(iv, AesBlock, 0),
   FlipBit(FlipBit(iv, AesBlock, 0), AesBlock, 1),
   [i \in 1..AesBlock |-> (iv[i] + 16 * i + 1) % 256]}

\* the payload with its IV region replaced
IvReplaced(payload, iv) ==
  LET result_bytes == Base64Decode(payload).val
  IN Base64Encode(iv \o Slice(result_bytes, IvEnd, Len(result_bytes)))

\* decrypts of the payload the last encrypts returned with another IV in its
\* first 16 bytes, with the same key
DecryptsIvReplaced ==
  /\ ~dec.called
  /\ IsSome(enc.result)
  /\ \E iv \in ReplacedIvs(Slice(Base64Decode(enc.result.val).val, 0, IvEnd)) :
       dec' = decrypts("iv", IvReplaced(enc.result.val, iv), enc.key)
  /\ UNCHANGED <<enc, cre, dimg, adj, tbl>>

DecryptsRaw ==
  /\ Idle
  /\ \E s \in RawEncoded, key \in Keys :
       /\ dec' = decrypts("raw", s, key)
       /\ UNCHANGED <<enc, cre, dimg, adj, tbl>>

\* create_img, built with or without overflow checks: with every combination
\* of the ciphertexts, styles, watermarks, biases and a, w, h, and with the
\* diffusion texts under MaxBias, every style and no watermark, and with the
\* texts that have unmapped characters under style "h" and no watermark
CreateImg ==
  /\ Idle
  /\ \/ \E ciphertext \in Ciphertexts, style \in Styles, watermark \in Watermarks,
           bias \in Biases, awh \in AlphaWidthHeight, overflow_checks \in BOOLEAN :
          cre' = create_img(ciphertext, style, watermark, bias, awh, overflow_checks)
     \/ \E ciphertext \in DiffusionTexts, style \in Styles, overflow_checks \in BOOLEAN :
          cre' = create_img(ciphertext, style, Text(EmptyName), MaxBias, NoOptions,
                            overflow_checks)
     \/ \E ciphertext \in UnmappedTexts, bias \in Biases, overflow_checks \in BOOLEAN :
          cre' = create_img(ciphertext, "h", Text(EmptyName), bias, NoOptions,
                            overflow_checks)
  /\ UNCHANGED <<enc, dec, dimg, adj, tbl>>

\* decode_image_and_extract_text of the string the last create_img returned
DecodeImage ==
  /\ ~dimg.called
  /\ IsSome(cre.result)
  /\ dimg' = decode_image_and_extract_text(cre.result.val)
  /\ UNCHANGED <<enc, dec, cre, adj, tbl>>

AdjustAlpha ==
  /\ Idle
  /\ \E image \in AdjustRasters, custom_opacity \in AlphaValues :
       /\ adj' = AdjFrame(image, custom_opacity, adjust_alpha(image, custom_opacity))
       /\ UNCHANGED <<enc, dec, cre, dimg, tbl>>

\* decode_image_and_extract_text of a string no create_img call produced
DecodeRaw ==
  /\ Idle
  /\ \E s \in RawImages :
       /\ dimg' = decode_image_and_extract_text(s)
       /\ UNCHANGED <<enc, dec, cre, adj, tbl>>

\* get_color and numbers_to_letter on one character
CharConversion ==
  /\ Idle
  /\ \E c \in Chars :
       /\ tbl' = char_conversion(c)
       /\ UNCHANGED <<enc, dec, cre, dimg, adj>>

\* the calls of the text cipher
TextNext ==
  \/ Encrypts
  \/ Decrypts
  \/ DecryptsTampered
  \/ DecryptsIvReplaced
  \/ DecryptsRaw

\* the calls of the image codec
ImageNext ==
  \/ CreateImg
  \/ DecodeImage
  \/ DecodeRaw
  \/ AdjustAlpha
  \/ CharConversion

Next == TextNext \/ ImageNext

Spec == Init /\ [][Next]_vars

\* the two halves of the crate on their own: neither reads the other's state
TextSpec == Init /\ [][TextNext]_vars

ImageSpec == Init /\ [][ImageNext]_vars

-----------------------------------------------------------------------------
(* Claims about the cipher. *)

\* C1: decrypts(encrypts(P, K, strength), K) returns exactly P, for every
\* plaintext of at least 10 bytes, every key (absent, shorter than, exactly
\* or longer than 16 bytes) and both strengths.
C1_RoundTrip ==
  (dec.called /\ dec.how = "same") => dec.result = Some(enc.input)

\* C2: a payload with one bit of its Tag or CipherText region flipped is
\* rejected by decrypts with the same key: the result is None.
C2_TamperDetected ==
  (dec.called /\ dec.how = "tampered") => dec.result = None

\* C2 witness: a flipped payload of a 16-byte key (whose untampered payload
\* decrypts) was given to decrypts and its tag check failed.
C2_Witness ==
  /\ dec.called /\ dec.how = "tampered"
  /\ enc.key = Some(KeyOfLen(16))
  /\ IsSome(dec.result_bytes) /\ Len(dec.result_bytes.val) > TagEnd + AesBlock
  /\ ~dec.hmac_ok

\* C3: encrypts of an input shorter than 10 bytes ends in an explicit failure
\* (None, not a panic), and a 10-byte input is accepted and round-trips.
C3_MinimumLength ==
  /\ (enc.called /\ Len(enc.input) < IvSeedLen) => enc.result = None
  /\ (enc.called /\ Len(enc.input) = IvSeedLen) => IsSome(enc.result)
  /\ (dec.called /\ dec.how = "same" /\ Len(enc.input) = IvSeedLen
        /\ Len(UnwrapOr(enc.key, DefaultKey)) <= AesKeyLen)
       => dec.result = Some(enc.input)

\* C4: decrypts never panics, and returns None on malformed base64, on a
\* decoded input shorter than 48 bytes, on a tag mismatch and on a cipher or
\* padding failure.
C4_DecryptsTotal ==
  dec.called =>
    /\ dec.result.tag # "Panic"
    /\ (~IsSome(dec.result_bytes) => dec.result = None)
    /\ (IsSome(dec.result_bytes) /\ Len(dec.result_bytes.val) < TagEnd
          => dec.result = None)
    /\ (~dec.hmac_ok => dec.result = None)

\* C5: encrypts and decrypts derive the same 16 key bytes from the same key
\* string: zero-padded when shorter, truncated when longer.
C5_SameKeyBytes ==
  (dec.called /\ dec.how = "same") =>
    /\ Len(dec.padded_key) = AesKeyLen
    /\ dec.padded_key = enc.padded_key

-----------------------------------------------------------------------------
(* Claims about the image codec. *)

AlphabetOnly(text) == \A i \in 1..Len(text) : CharIndex(text[i]) # -1

NamedOnly == cre.bias = NoOptions /\ cre.awh = NoOptions

\* C6: for an alphabet-only ciphertext C of length >= 2 and any bias,
\* decode_image_and_extract_text(create_img(C, "h", "empty", ..)) returns C.
C6_IdentityRoundTrip ==
  (dimg.called /\ cre.style = "h" /\ cre.watermark = Text(EmptyName)
     /\ Len(cre.ciphertext) >= 2 /\ AlphabetOnly(cre.ciphertext))
    => dimg.result = Some(cre.ciphertext)

\* C6 witness: an image of a ciphertext of 2 or more characters, made with
\* style "h", no watermark and a caller's bias, was decoded to a string.
C6_Witness ==
  /\ dimg.called /\ cre.style = "h" /\ cre.watermark = Text(EmptyName)
  /\ Len(cre.ciphertext) >= 2 /\ cre.bias # NoOptions
  /\ IsSome(dimg.result)

\* C7: with style "h", a watermark named "Bitcoin", "bitcoin" or "cardano" and
\* r, g, b, a, w, h omitted, create_img returns an image for every non-empty
\* alphabet-only ciphertext, and decoding that image returns the ciphertext.
C7_NamedWatermarkRoundTrip ==
  (cre.called /\ cre.style = "h" /\ NamedOnly /\ AlphabetOnly(cre.ciphertext)
     /\ cre.watermark \in {Text(CapitalBitcoinName), Text(BitcoinName), Text(CardanoName)})
    => /\ IsSome(cre.result)
       /\ dimg.called => dimg.result = Some(cre.ciphertext)

\* C8: with a, w, h omitted, create_img returns an image for each of
\* "empty", "bitcoin", "ethereum" and "cardano", and for the three asset
\* names the builtin asset is the raster that is overlaid.
C8_BuiltinNamesUsable ==
  (cre.called /\ cre.awh = NoOptions
     /\ cre.watermark \in {Text(EmptyName), Text(BitcoinName), Text(EthereumName),
                           Text(CardanoName)})
    => /\ IsSome(cre.result)
       /\ cre.watermark # Text(EmptyName) => cre.loaded

\* whether a create_img call resolved a builtin asset
BuiltinResolved == cre.called /\ cre.loaded /\ ~IsBase64(cre.watermark)

\* the pixel of the builtin asset that lies over canvas pixel (x, y) when the
\* asset is centred on an n x n canvas, None when no pixel does
AssetPixelOver(name, n, x, y) ==
  LET at == (n \div 2) - (BuiltinCenter \div 2)
  IN IF at >= 0 /\ x >= at /\ x < at + AssetSide /\ y >= at /\ y < at + AssetSide
     THEN Some(GetPixel(BuiltinAsset(name).val, x - at, y - at))
     ELSE None

\* C9 as claimed: a builtin watermark without a, w, h is composited with
\* alpha 0 and leaves every canvas pixel unchanged; with a, w, h supplied the
\* caller's values are used.
C9_BuiltinInvisible ==
  (BuiltinResolved /\ IsSome(cre.result)) =>
    /\ cre.awh = NoOptions => cre.result.val.raster = cre.canvas
    /\ cre.awh # NoOptions
         => cre.alpha = cre.awh[1] /\ cre.center_w = cre.awh[2] /\ cre.center_h = cre.awh[3]

\* C9 as amended: a resolved builtin watermark is given alpha 0 and the
\* centring size 32 x 32 whether or not the caller supplies a, w, h; the
\* asset keeps its own alpha, so a canvas pixel is unchanged exactly where no
\* asset pixel or a fully transparent one lies over it, and is replaced by the
\* asset's pixel where that pixel is fully opaque.
C9_BuiltinAlphaZeroKeepsAsset ==
  BuiltinResolved =>
    /\ cre.alpha = Some(0)
    /\ cre.center_w = Some(BuiltinCenter) /\ cre.center_h = Some(BuiltinCenter)
    /\ IsSome(cre.result) =>
         \A y \in 0..(cre.canvas.h - 1) : \A x \in 0..(cre.canvas.w - 1) :
           LET over == AssetPixelOver(cre.watermark.chars, cre.canvas.w, x, y)
               out == GetPixel(cre.result.val.raster, x, y)
           IN /\ (~IsSome(over) \/ over.val[4] = 0) => out = GetPixel(cre.canvas, x, y)
              /\ (IsSome(over) /\ over.val[4] = 255) => out = over.val

\* C9 witness: the "cardano" asset was resolved with a, w, h supplied and the
\* returned image differs from the canvas it was laid over.
C9_Witness ==
  /\ BuiltinResolved /\ IsSome(cre.result)
  /\ cre.watermark = Text(CardanoName) /\ cre.awh # NoOptions
  /\ cre.result.val.raster # cre.canvas

\* C10: adjust_alpha with alpha a rewrites exactly the pixels of alpha 0 to a
\* when the raster has one, rewrites every pixel's alpha to a when it has
\* none, and never changes a colour channel.
C10_AlphaRule ==
  adj.called =>
    \A x1 \in 1..adj.image.w :
      LET p == adj.image.px[1][x1]
          q == adj.result.px[1][x1]
      IN /\ q[1] = p[1] /\ q[2] = p[2] /\ q[3] = p[3]
         /\ q[4] = IF ~HasTransparent(adj.image) \/ p[4] = 0
                   THEN adj.custom_opacity
                   ELSE p[4]

\* C11: with a caller-supplied base64 watermark, create_img returns no
\* result when any of a, w, h is missing and when the decoded bytes are no
\* raster image; it never returns an image that lacks the watermark.
C11_CustomWatermarkFailures ==
  (cre.called /\ IsBase64(cre.watermark)) =>
    /\ (\E i \in 1..3 : ~IsSome(cre.awh[i])) => cre.result = None
    /\ ~IsSome(LoadFromMemory(cre.watermark)) => cre.result = None
    /\ IsSome(cre.result) => cre.loaded

\* C12: decode_image_and_extract_text returns None for a string that is not
\* base64 and for base64 of bytes that are no decodable raster.
C12_DecodeFailuresAreNone ==
  (dimg.called
     /\ (~IsBase64(dimg.encoded_image) \/ ~IsSome(LoadFromMemory(dimg.encoded_image))))
    => dimg.result = None

\* "abcdefghijklmnopqrstuvwxyzABCDEFGHIJKLMNOPQRSTUVWXYZ0123456789+/="
valid_characters ==
  [i \in 1..26 |-> 96 + i] \o [i \in 1..26 |-> 64 + i] \o [i \in 1..10 |-> 47 + i]
    \o <<43, 47, 61>>

InAlphabet(c) == \E i \in 1..Len(valid_characters) : valid_characters[i] = c

\* C13: numbers_to_letter(get_color(c)) = c for each of the 65 characters of
\* the alphabet, no other character of the alphabet has the colour of c, and
\* get_color is None for a character outside the alphabet.
C13_TableBijection ==
  tbl.called =>
    /\ InAlphabet(tbl.c) =>
         /\ IsSome(tbl.color)
         /\ tbl.back = Some(tbl.c)
         /\ \A i \in 1..Len(valid_characters) :
              get_color(valid_characters[i]) = tbl.color => valid_characters[i] = tbl.c
    /\ ~InAlphabet(tbl.c) => tbl.color = None

\* C13 witness: '=' was converted to its colour and back.
C13_Witness ==
  tbl.called /\ tbl.c = PadChar /\ IsSome(tbl.color) /\ tbl.back = Some(PadChar)

-----------------------------------------------------------------------------
(* More claims about the cipher. *)

\* the key string as 16 bytes: zero-padded when shorter, cut when longer
NormalizedKey(key) ==
  LET k == UnwrapOr(key, DefaultKey)
  IN [i \in 1..AesKeyLen |-> IF i <= Len(k) THEN k[i] ELSE 0]

\* C14: the decoded result of a successful encrypts is IV (16 bytes), Tag (32
\* bytes), CipherText; Tag is the HMAC of the CipherText bytes under the
\* normalized key, CipherText has 16 * (len(P) / 16 + 1) bytes, the whole at
\* least 64; decrypts cuts the payload at the same offsets 16 and 48.  (The
\* payload is looked at in the state the encrypts call leaves.)
C14_PayloadFraming ==
  /\ (enc.called /\ ~dec.called /\ IsSome(enc.result)) =>
       LET decoded == Base64Decode(enc.result.val)
           payload == decoded.val
       IN /\ IsSome(decoded)
          /\ Len(payload) >= IvEnd + HmacLen + AesBlock
          /\ Len(enc.iv) = IvEnd
          /\ SubSeq(payload, 1, IvEnd) = enc.iv
          /\ SubSeq(payload, IvEnd + 1, TagEnd)
               = calculate_hmac(enc.ciphertext, NormalizedKey(enc.key))
          /\ SubSeq(payload, TagEnd + 1, Len(payload)) = enc.ciphertext
          /\ Len(enc.ciphertext) = AesBlock * ((Len(enc.input) \div AesBlock) + 1)
  /\ (dec.called /\ dec.how = "same") =>
       /\ dec.iv = enc.iv
       /\ dec.hmac = enc.hmac
       /\ dec.ciphertext = enc.ciphertext

\* C14 witness: a 17-byte plaintext (two cipher blocks) was encrypted and its
\* payload cut up by decrypts.
C14_Witness ==
  /\ dec.called /\ dec.how = "same" /\ IsSome(dec.result)
  /\ Len(enc.input) > AesBlock /\ Len(dec.ciphertext) = 2 * AesBlock

\* C15: under strength "default" (or omitted) the payload is the same
\* whatever the random source gives, and its IV region is the base64 of the
\* first 10 plaintext bytes; under "advanced" the IV region is the base64 of
\* the 10 random bytes.  (Looked at in the state the encrypts call leaves.)
C15_DefaultDeterministic ==
  (enc.called /\ ~dec.called /\ IsSome(enc.result)) =>
    LET iv_region == SubSeq(Base64Decode(enc.result.val).val, 1, IvEnd)
    IN /\ UnwrapOr(enc.strength, DefaultStrength) = DefaultStrength =>
            /\ iv_region = Base64Encode(SubSeq(enc.input, 1, IvSeedLen))
            /\ \A rnd \in RandomBytes :
                 encrypts(enc.input, enc.key, enc.strength, rnd).result = enc.result
       /\ enc.strength = Some(AdvancedStrength) =>
            iv_region = Base64Encode(enc.random_bytes)

\* C15 witness: a plaintext longer than its 10-byte prefix was encrypted with
\* strength "default" and a caller's key.
C15_Witness ==
  /\ enc.called /\ ~dec.called /\ IsSome(enc.result)
  /\ enc.strength = Some(DefaultStrength) /\ IsSome(enc.key)
  /\ Len(enc.input) > IvSeedLen

\* C18: decrypts runs the block cipher only after the recomputed tag was
\* found equal to the Tag region; on a mismatch it returns None without
\* running the cipher.
C18_VerifyThenDecrypt ==
  dec.called =>
    /\ dec.cipher_called => dec.hmac_ok
    /\ (IsSome(dec.result_bytes) /\ Len(dec.result_bytes.val) >= TagEnd
          /\ ~CtEq(calculate_hmac(dec.ciphertext, dec.padded_key), dec.hmac))
         => (dec.result = None /\ ~dec.cipher_called)

\* C18 witness: the forged payload, whose tag is valid, reached the block
\* cipher and failed there.
C18_Witness ==
  /\ dec.called /\ dec.encoded_result = ForgedPayload
  /\ dec.hmac_ok /\ dec.cipher_called /\ dec.result = None

-----------------------------------------------------------------------------
(* More claims about the image codec. *)

\* the payload colours of a ciphertext: the colour of each character of the
\* ciphertext with its last character moved to the front (black for a
\* character the table does not know), alpha 255
PayloadRow(ciphertext) ==
  LET n == Len(ciphertext)
      Moved(x1) == IF x1 = 1 THEN ciphertext[n] ELSE ciphertext[x1 - 1]
  IN [x1 \in 1..n |-> UnwrapOr(get_color(Moved(x1)), <<0, 0, 0>>) \o <<255>>]

\* C16: after the diffusion pass row 0 holds exactly the payload colours and
\* every row 1..N-1 is a copy of a decorative input row (index >= 1), never
\* of the payload row.
C16_RowsDecorativeOnly ==
  cre.called =>
    LET n == cre.shifted.h
    IN /\ cre.shifted.px[1] = PayloadRow(cre.ciphertext)
       /\ \A y1 \in 2..n :
            /\ \E s1 \in 2..n : cre.shifted.px[y1] = cre.img.px[s1]
            /\ cre.shifted.px[y1] # cre.img.px[1]

\* C17: the diffusion pass leaves row 0 as it was, and row y >= 1 of its
\* output is input row y - shift when y >= shift and input row y otherwise,
\* shift being the number of row indices 0..y divisible by offset.
C17_DiffusionRule ==
  cre.called =>
    LET n == cre.img.h
        Shift(y) == (y \div cre.offset) + 1
    IN /\ cre.shifted.w = n /\ cre.shifted.h = n
       /\ cre.shifted.px[1] = cre.img.px[1]
       /\ \A y \in 1..(n - 1) :
            cre.shifted.px[y + 1] = IF y >= Shift(y) THEN cre.img.px[y - Shift(y) + 1]
                                    ELSE cre.img.px[y + 1]

\* C17 witness: a pass with an offset of 3 or more moved a row.
C17_Witness ==
  /\ cre.called /\ cre.offset >= 3
  /\ \E y1 \in 2..cre.img.h : cre.shifted.px[y1] # cre.img.px[y1]

\* C19: for a decodable raster the decoder returns the characters of the
\* row-0 pixels that the table knows, left to right with the first moved to
\* the end; the other pixels add nothing, and with no known pixel the result
\* is the empty string.
C19_DecoderExtraction ==
  (dimg.called /\ IsSome(LoadFromMemory(dimg.encoded_image))) =>
    LET row == dimg.encoded_image.raster.px[1]
        CharOf(p) == numbers_to_letter(p[1], p[2], p[3])
        Known(p) == IsSome(CharOf(p))
        kept == SelectSeq(row, Known)
        text == [i \in 1..Len(kept) |-> CharOf(kept[i]).val]
    IN dimg.result = Some(IF text = <<>> THEN <<>> ELSE Tail(text) \o <<Head(text)>>)

\* C20: for N >= 2 the payload row lies, after the style transform, in row 0
\* under "h", in row N-1 under "h2", in column N-1 read downwards under "v"
\* and in column 0 read downwards under "v2"; only under "h" is it the row
\* the decoder reads; the watermark is laid over the transformed canvas.
C20_PayloadRowPosition ==
  (cre.called /\ Len(cre.ciphertext) >= 2) =>
    LET n == Len(cre.ciphertext)
        payload == PayloadRow(cre.ciphertext)
        out == cre.canvas
    IN /\ cre.style = "h" => \A x \in 0..(n - 1) : GetPixel(out, x, 0) = payload[x + 1]
       /\ cre.style = "h2" => \A x \in 0..(n - 1) : GetPixel(out, x, n - 1) = payload[x + 1]
       /\ cre.style = "v" => \A x \in 0..(n - 1) : GetPixel(out, n - 1, x) = payload[x + 1]
       /\ cre.style = "v2" => \A x \in 0..(n - 1) : GetPixel(out, 0, x) = payload[x + 1]
       /\ cre.style # "h" => out.px[1] # payload
       /\ (IsSome(cre.result) /\ ~cre.loaded) => cre.result.val.raster = out
       /\ (IsSome(cre.result) /\ BuiltinResolved) =>
            \A y \in 0..(n - 1) : \A x \in 0..(n - 1) :
              LET over == AssetPixelOver(cre.watermark.chars, n, x, y)
              IN /\ ~IsSome(over) => GetPixel(cre.result.val.raster, x, y) = GetPixel(out, x, y)
                 /\ (IsSome(over) /\ over.val[4] = 255)
                      => GetPixel(cre.result.val.raster, x, y) = over.val

\* C20 witness: an image of style "v2" with the "cardano" asset laid over it.
C20_Witness ==
  /\ cre.called /\ cre.style = "v2" /\ Len(cre.ciphertext) >= AssetSide
  /\ cre.watermark = Text(CardanoName) /\ BuiltinResolved /\ IsSome(cre.result)

\* C21: the rows y >= 1 that hold a pure-white pixel are at most N-1, so
\* offset (N / count when count > 10, else 1) is at least 1 and y % offset
\* never divides by zero; every source row y - shift that is read lies in
\* 0..N-1, the subtraction being made only when y >= shift.
C21_DiffusionArithmeticSafe ==
  cre.called =>
    LET n == cre.img.h
        white_rows == {y \in 1..(n - 1) :
                         \E x \in 0..(n - 1) :
                           GetPixel(cre.img, x, y) = <<255, 255, 255, 255>>}
    IN /\ cre.row_count = Cardinality(white_rows)
       /\ cre.row_count <= n - 1
       /\ cre.offset >= 1
       /\ cre.offset = IF cre.row_count > 10 THEN n \div cre.row_count ELSE 1
       /\ \A y \in 0..(n - 1) :
            LET row_shift == RowShift(y, cre.offset)
            IN /\ SourceRow(y, cre.offset) \in 0..(n - 1)
               /\ SourceRow(y, cre.offset) # y => (y >= row_shift /\ y - row_shift >= 0)

\* C21 witness: a canvas with more than 10 white rows, whose offset is the
\* quotient.
C21_Witness ==
  /\ cre.called /\ cre.row_count > 10
  /\ cre.offset = cre.img.h \div cre.row_count /\ cre.offset >= 2

\* C22: with a resolved watermark the offsets N/2 - w/2 and N/2 - h/2 are
\* never negative in u32 (no wrap-around, no overflow abort), so create_img
\* returns an image also when the ciphertext is shorter than the watermark
\* is wide.
C22_CentringNeverUnderflows ==
  (cre.called /\ cre.loaded) =>
    LET n == Len(cre.ciphertext)
    IN /\ (n \div 2) >= (cre.center_w.val \div 2)
       /\ (n \div 2) >= (cre.center_h.val \div 2)
       /\ IsSome(cre.result)

\* the characters of a text that the table knows, in their order
MappedOnly(text) ==
  LET Mapped(c) == IsSome(get_color(c))
  IN SelectSeq(text, Mapped)

\* C23: with style "h" and no watermark, decoding the image of a non-empty
\* ciphertext that may hold unmapped characters returns the ciphertext with
\* exactly those characters deleted, wherever they occur.
C23_UnmappedDeleted ==
  (dimg.called /\ cre.called /\ cre.style = "h" /\ cre.watermark = Text(EmptyName))
    => dimg.result = Some(MappedOnly(cre.ciphertext))

\* the bytes of a sequence after its first 16-byte block
AfterFirstBlock(bytes) == SubSeq(bytes, AesBlock + 1, Len(bytes))

\* C24 as stated: with the 16 IV bytes of a payload that verifies under the
\* key replaced, the tag verification of decrypts passes and the block cipher runs, and whenever
\* the padding is still valid the returned plaintext differs from the
\* original only within its first 16-byte block.
C24_IvNotCovered ==
  (/\ dec.called /\ dec.how = "iv"
   /\ CtEq(calculate_hmac(enc.ciphertext, dec.padded_key), enc.hmac)) =>
    /\ dec.hmac_ok /\ dec.cipher_called
    /\ IsSome(SymmDecrypt(dec.padded_key, dec.iv, dec.ciphertext))
         => /\ IsSome(dec.result)
            /\ AfterFirstBlock(dec.result.val) = AfterFirstBlock(enc.input)

\* C24, amended: with the 16 IV bytes of a payload replaced, the tag
\* verification of decrypts has the outcome it has on the untouched payload
\* (it passes when the key is at most 16 bytes long, and fails as the
\* untouched payload does when the key is longer); when it passes the block
\* cipher runs on the replaced IV, and when the padding is still valid the
\* decrypted bytes differ from the original bytes only within the first 16
\* and decrypts returns their lossy UTF-8 decoding, otherwise None.
C24_IvNotCoveredBytes ==
  (dec.called /\ dec.how = "iv") =>
    LET k == UnwrapOr(enc.key, DefaultKey)
        untouched_ok == CtEq(calculate_hmac(enc.ciphertext, DecryptsPaddedKey(k)), enc.hmac)
        decrypted_data == SymmDecrypt(dec.padded_key, dec.iv, dec.ciphertext)
    IN /\ dec.iv # Slice(Base64Decode(enc.result.val).val, 0, IvEnd)
       /\ dec.hmac = enc.hmac /\ dec.ciphertext = enc.ciphertext
       /\ dec.hmac_ok = untouched_ok
       /\ Len(k) <= AesKeyLen => dec.hmac_ok
       /\ dec.cipher_called = dec.hmac_ok
       /\ ~dec.hmac_ok => dec.result = None
       /\ (dec.hmac_ok /\ ~IsSome(decrypted_data)) => dec.result = None
       /\ (dec.hmac_ok /\ IsSome(decrypted_data))
            => /\ AfterFirstBlock(decrypted_data.val) = AfterFirstBlock(enc.input)
               /\ dec.result = Some(Utf8Lossy(decrypted_data.val))

\* a replaced IV was accepted and changed the first block of a plaintext of
\* more than one block
C24_Witness ==
  /\ dec.called /\ dec.how = "iv" /\ dec.hmac_ok /\ dec.cipher_called
  /\ Len(enc.input) > AesBlock
  /\ IsSome(dec.result)
  /\ dec.result.val # enc.input
  /\ SubSeq(dec.result.val, 1, AesBlock) # SubSeq(enc.input, 1, AesBlock)

====
